---- MODULE Spec2Model ----
(***************************************************************************)
(* Verification model of the Sovereign simulation core:                    *)
(*   - the round-based combat engine (lib/game/combat.ts, resolveCombat),  *)
(*   - the NPC defender generator (lib/game/npc.ts),                       *)
(*   - the per-player world tick (lib/game/tick.ts, processPlayerTick and  *)
(*     processWorldTick).                                                  *)
(*                                                                         *)
(* Numbers.  The source computes in IEEE doubles.  The model computes the  *)
(* same expressions exactly, on integers scaled by a fixed factor:         *)
(*   - multipliers (combat triangle, mana bonus, cavalry charge) are kept  *)
(*     in percent (1.25 is 125),                                           *)
(*   - melee damage and wall hit points are kept in hundredths,            *)
(*   - the remaining pool of the speed-ordered volley is kept in           *)
(*     twentieths (every ARCHER triangle entry divides 2000).              *)
(* floor(x / y) of the source is the integer division of the scaled        *)
(* values; a product too large for 32-bit integers is compared as a        *)
(* fraction (LeqFrac) instead of being multiplied out.  The two agree      *)
(* wherever the quotient is not a whole number; where it is one, a double  *)
(* that rounded below it makes the source floor to one less.               *)
(*                                                                         *)
(* Calls of processPlayerTick run one at a time: the transaction of a      *)
(* call is committed or rolled back before the next call starts.           *)
(***************************************************************************)
EXTENDS Integers, Sequences, FiniteSets, TLC

\* ---------------------------------------------------------------------
\* State
\* ---------------------------------------------------------------------

VARIABLES
    argAttacker, \* the attacker argument of resolveCombat
    argDefender, \* the defender argument of resolveCombat
    battle,      \* the locals of the call in progress
    cpc,         \* where the call in progress stands
    calls,       \* how many calls with these arguments are made
    callNo,      \* how many of them were started
    step,        \* the number of steps taken by the call in progress
    firstRun,    \* the states the first call went through
    result,      \* the CombatResult of the last call that returned
    db,          \* the persistent store, as committed
    tx,          \* the store as the open transaction sees it
    tick,        \* the locals of the processPlayerTick call in progress
    clock,       \* the wall clock (what new Date() returns)
    world,       \* the locals of the processWorldTick call in progress
    inv          \* the latest processPlayerTick call and how it ended

cvars == <<argAttacker, argDefender, battle, cpc, calls, callNo, step, firstRun, result>>

tvars == <<db, tx, tick, clock, world, inv>>

vars == <<cvars, tvars>>

\* ---------------------------------------------------------------------
\* Generic helpers
\* ---------------------------------------------------------------------

Min(a, b) == IF a <= b THEN a ELSE b

\* A maximum that lets its second argument through.
MaxTakesSecond(a, b) == b

Max(a, b) == IF a >= b THEN a ELSE b

RECURSIVE SumOver(_, _)
\* Array.prototype.reduce((sum, u) => sum + f(u), 0) over a sequence.
SumOver(f(_), s) == IF s = <<>> THEN 0 ELSE f(Head(s)) + SumOver(f, Tail(s))

RECURSIVE LeqFrac(_, _, _, _)
\* a / b <= c / d for a, c >= 0 and b, d > 0, by the Euclidean expansion of
\* both fractions (no product of the four numbers is formed).
LeqFrac(a, b, c, d) ==
    LET qa == a \div b
        qc == c \div d
        ra == a % b
        rc == c % d
    IN  IF qa # qc THEN qa < qc
        ELSE IF ra = 0 THEN TRUE
        ELSE IF rc = 0 THEN FALSE
        ELSE LeqFrac(d, rc, b, ra)

\* ---------------------------------------------------------------------
\* Static tables (lib/game/constants.ts)
\* ---------------------------------------------------------------------

KnownUnitTypes ==
    {"INFANTRY", "ARCHER", "HEAVY_INFANTRY", "WARDEN", "CARAVAN", "SCOUT", "CAVALRY"}

\* A unit type that has no row in UNIT_STATS (getStats returns undefined).
UnknownUnitType == "DRAGON"

UNIT_STATS ==
    [t \in KnownUnitTypes |->
        CASE t = "INFANTRY"       -> [attack |-> 10, defense |-> 8,  speed10 |-> 5,  carryCapacity |-> 0]
          [] t = "ARCHER"         -> [attack |-> 12, defense |-> 5,  speed10 |-> 5,  carryCapacity |-> 0]
          [] t = "HEAVY_INFANTRY" -> [attack |-> 8,  defense |-> 15, speed10 |-> 3,  carryCapacity |-> 0]
          [] t = "WARDEN"         -> [attack |-> 3,  defense |-> 25, speed10 |-> 1,  carryCapacity |-> 0]
          [] t = "CARAVAN"        -> [attack |-> 0,  defense |-> 2,  speed10 |-> 4,  carryCapacity |-> 200]
          [] t = "SCOUT"          -> [attack |-> 2,  defense |-> 2,  speed10 |-> 20, carryCapacity |-> 0]
          [] t = "CAVALRY"        -> [attack |-> 15, defense |-> 10, speed10 |-> 10, carryCapacity |-> 0]]

\* getStats(unitType) !== undefined
HasStats(t) == t \in KnownUnitTypes

\* (s?.attack ?? 0)
AttackOf(t) == IF HasStats(t) THEN UNIT_STATS[t].attack ELSE 0

\* (s?.defense ?? 1)
DefenseOr1(t) == IF HasStats(t) THEN UNIT_STATS[t].defense ELSE 1

\* (getStats(t)?.speed ?? 0), in tenths of a tile per minute
SpeedOf(t) == IF HasStats(t) THEN UNIT_STATS[t].speed10 ELSE 0

\* COMBAT_TRIANGLE[a]?.[t] ?? 1.0, in percent
Triangle(a, t) ==
    CASE a = "CAVALRY" /\ t = "ARCHER"                -> 125
      [] a = "CAVALRY" /\ t = "INFANTRY"              -> 80
      [] a = "CAVALRY" /\ t = "HEAVY_INFANTRY"        -> 75
      [] a = "ARCHER" /\ t = "INFANTRY"               -> 125
      [] a = "ARCHER" /\ t = "CAVALRY"                -> 80
      [] a = "INFANTRY" /\ t = "CAVALRY"              -> 125
      [] a = "INFANTRY" /\ t = "ARCHER"               -> 80
      [] a = "HEAVY_INFANTRY" /\ t = "CAVALRY"        -> 118
      [] OTHER                                        -> 100

WALL_HP_PER_LEVEL == 100

GUARD_TOWER_DAMAGE_PER_LEVEL == 20

\* CAVALRY_CHARGE_MULTIPLIER, in percent.  combat.ts imports it from the
\* constants module; the constants source at hand does not export it.
CAVALRY_CHARGE_MULTIPLIER == 150

RANGED_TYPES == {"ARCHER"}

MELEE_TYPES == {"INFANTRY", "HEAVY_INFANTRY", "CAVALRY", "WARDEN", "SCOUT"}

MAX_ROUNDS == 50

\* ---------------------------------------------------------------------
\* Combat engine: helpers (lib/game/combat.ts, round-based version)
\* ---------------------------------------------------------------------

\* A mana bonus without its cap.
ManaBonusUncapped(manaReserve) == 100 + manaReserve \div 100

\* getManaDefenseMultiplier, in percent: 1 + min(floor(mana / 100), 25) / 100
getManaDefenseMultiplier(manaReserve) == 100 + Min(manaReserve \div 100, 25)

\* units.some(u => u.unitType === 'CARAVAN' && u.quantity > 0)
hasCaravans(units) ==
    \E i \in DOMAIN units : units[i].unitType = "CARAVAN" /\ units[i].quantity > 0

CarryOfGroup(u) ==
    IF HasStats(u.unitType) /\ UNIT_STATS[u.unitType].carryCapacity > 0
    THEN UNIT_STATS[u.unitType].carryCapacity * u.quantity
    ELSE 0

getCarryCapacity(units) == SumOver(CarryOfGroup, units)

\* units.some(u => u.quantity > 0)
AnyAlive(units) == \E i \in DOMAIN units : units[i].quantity > 0

GroupLost(u) == u.lost

sumLost(units) == SumOver(GroupLost, units)

GroupHp(u) == DefenseOr1(u.unitType) * u.quantity

GroupRaw(u) == AttackOf(u.unitType) * u.quantity

\* units.filter(pred): the subsequence of the groups whose type is in `types`
\* and whose quantity is positive.
LiveOfTypes(units, types) ==
    SelectSeq(units, LAMBDA u : u.unitType \in types /\ u.quantity > 0)

\* A tracker after `killed` of its units died.
Kill(u, killed) ==
    [u EXCEPT !.quantity = u.quantity - killed, !.lost = u.lost + killed]

\* The kill count without the cap at the group's quantity.
RangedProportionalKilledUncapped(rawDamage, t, totalHp) ==
    LET def == UNIT_STATS[t.unitType].defense
        tri == Triangle("ARCHER", t.unitType)
    IN  (rawDamage * t.quantity * def * tri) \div (totalHp * 100 * def)

\* min(floor(num / den), quantity) for the one target of applyRangedProportional:
\* damage = rawDamage * share * triangle, killed = floor(damage / defense).
RangedProportionalKilled(rawDamage, t, totalHp) ==
    LET def == UNIT_STATS[t.unitType].defense
        tri == Triangle("ARCHER", t.unitType)
    IN  Min((rawDamage * t.quantity * def * tri) \div (totalHp * 100 * def), t.quantity)

applyRangedProportional(rawDamage, targets) ==
    LET totalHp == SumOver(GroupHp, targets)
    IN  IF totalHp <= 0 THEN targets
        ELSE [i \in DOMAIN targets |->
                LET t == targets[i]
                IN  IF t.quantity <= 0 \/ ~HasStats(t.unitType) THEN t
                    ELSE Kill(t, RangedProportionalKilled(rawDamage, t, totalHp))]

\* An order that leaves the groups as the array has them.
ArrayOrderBefore(targets, i, j) == i < j

\* a sorts before b in targets.filter(quantity > 0).sort((a, b) => sa - sb);
\* the sort is stable, so equal speeds keep their array order.
SpeedBefore(targets, i, j) ==
    \/ SpeedOf(targets[i].unitType) < SpeedOf(targets[j].unitType)
    \/ /\ SpeedOf(targets[i].unitType) = SpeedOf(targets[j].unitType)
       /\ i < j

RECURSIVE SortBySpeed(_, _)
\* The indices in `left`, in the order the sorted array visits them.
SortBySpeed(targets, left) ==
    IF left = {} THEN <<>>
    ELSE LET first == CHOOSE i \in left :
                        \A j \in left \ {i} : SpeedBefore(targets, i, j)
         IN  <<first>> \o SortBySpeed(targets, left \ {first})

RECURSIVE SpeedOrderLoop(_, _, _)
\* The for-loop of applyRangedSpeedOrder over the sorted indices `order`;
\* remaining20 is `remaining` in twentieths.
SpeedOrderLoop(remaining20, targets, order) ==
    IF order = <<>> \/ remaining20 <= 0 THEN targets
    ELSE LET i == Head(order)
             unit == targets[i]
         IN  IF ~HasStats(unit.unitType) \/ unit.quantity <= 0
             THEN SpeedOrderLoop(remaining20, targets, Tail(order))
             ELSE LET def == UNIT_STATS[unit.unitType].defense
                      tri == Triangle("ARCHER", unit.unitType)
                      hpPool == unit.quantity * def
                  IN  IF remaining20 * tri >= hpPool * 2000
                      THEN SpeedOrderLoop(remaining20 - (hpPool * 2000) \div tri,
                                          [targets EXCEPT ![i] = Kill(unit, unit.quantity)],
                                          Tail(order))
                      ELSE SpeedOrderLoop(0,
                                          [targets EXCEPT ![i] =
                                              Kill(unit, (remaining20 * tri) \div (2000 * def))],
                                          Tail(order))

applyRangedSpeedOrder(totalDamage, targets) ==
    SpeedOrderLoop(20 * totalDamage, targets,
                   SortBySpeed(targets, {i \in DOMAIN targets : targets[i].quantity > 0}))

\* Sum over the attackers with stats of attack * quantity * triangle(a, t),
\* in hundredths.
WeightedDamage(attackers, targetType) ==
    LET w(a) == IF HasStats(a.unitType)
                THEN UNIT_STATS[a.unitType].attack * a.quantity * Triangle(a.unitType, targetType)
                ELSE 0
    IN  SumOver(w, attackers)

RECURSIVE LargestWith(_, _, _)
\* The largest k in lo..hi with P(k), for a P that holds at lo and, once
\* false, stays false; found by bisection.
LargestWith(P(_), lo, hi) ==
    IF lo >= hi THEN lo
    ELSE LET mid == (lo + hi + 1) \div 2
         IN  IF P(mid) THEN LargestWith(P, mid, hi) ELSE LargestWith(P, lo, mid - 1)

\* min(floor(damage / defense), quantity) for one target of
\* applyMeleeProportional, where
\*   damage = totalDamage * (quantity * defense / totalTargetHp)
\*                        * (weightedDamage / totalRaw).
\* k units die iff k <= damage / defense, that is iff
\*   k * 100 * totalRaw / weighted100 <= totalDamage100 * quantity / (100 * totalTargetHp).
MeleeProportionalKilled(totalDamage100, attackers, t, totalRaw, totalTargetHp) ==
    LET weighted100 == WeightedDamage(attackers, t.unitType)
        Dies(k) == LeqFrac(k * 100 * totalRaw, weighted100,
                           totalDamage100 * t.quantity, 100 * totalTargetHp)
    IN  LargestWith(Dies, 0, t.quantity)

applyMeleeProportional(totalDamage100, attackers, targets) ==
    LET totalRaw == SumOver(GroupRaw, attackers)
        totalTargetHp == SumOver(GroupHp, targets)
    IN  IF totalTargetHp <= 0 \/ totalRaw <= 0 THEN targets
        ELSE [i \in DOMAIN targets |->
                LET t == targets[i]
                IN  IF t.quantity <= 0 \/ ~HasStats(t.unitType) THEN t
                    ELSE Kill(t, MeleeProportionalKilled(totalDamage100, attackers, t,
                                                         totalRaw, totalTargetHp))]

\* ---------------------------------------------------------------------
\* Combat engine: Map helpers of the combat loop
\* ---------------------------------------------------------------------

\* A Map<string, number> is a sequence of [unitType, lost] entries in
\* insertion order, one entry per key.

\* map.get(key) ?? 0
MapGet(map, key) ==
    IF \E i \in DOMAIN map : map[i].unitType = key
    THEN map[CHOOSE i \in DOMAIN map : map[i].unitType = key].lost
    ELSE 0

\* map.set(key, value)
MapSet(map, key, value) ==
    IF \E i \in DOMAIN map : map[i].unitType = key
    THEN [i \in DOMAIN map |->
            IF map[i].unitType = key THEN [unitType |-> key, lost |-> value] ELSE map[i]]
    ELSE Append(map, [unitType |-> key, lost |-> value])

RECURSIVE MapOfLost(_, _)
\* new Map(units.map(u => [u.unitType, u.lost])), built entry by entry
MapOfLost(units, map) ==
    IF units = <<>> THEN map
    ELSE MapOfLost(Tail(units), MapSet(map, Head(units).unitType, Head(units).lost))

snapshotLost(atkUnits, defUnits) ==
    [atk |-> MapOfLost(atkUnits, <<>>), def |-> MapOfLost(defUnits, <<>>)]

RECURSIVE accumulateDelta(_, _, _)
accumulateDelta(units, before, accumulator) ==
    IF units = <<>> THEN accumulator
    ELSE LET u == Head(units)
             delta == u.lost - MapGet(before, u.unitType)
         IN  accumulateDelta(Tail(units), before,
                             IF delta > 0
                             THEN MapSet(accumulator, u.unitType,
                                         MapGet(accumulator, u.unitType) + delta)
                             ELSE accumulator)

mapToLossArray(map) == SelectSeq(map, LAMBDA e : e.lost > 0)

\* ---------------------------------------------------------------------
\* Combat engine: resolveCombat, one step at a time
\* ---------------------------------------------------------------------

\* attacker.units.filter(u => u.quantity > 0).map(u => ({...u, lost: 0}))
Trackers(units) ==
    LET live == SelectSeq(units, LAMBDA u : u.quantity > 0)
    IN  [i \in DOMAIN live |->
            [unitType |-> live[i].unitType, quantity |-> live[i].quantity, lost |-> 0]]

RECURSIVE StructureLevel(_, _, _)
\* The level left in wallLevel / guardTowerLevel by the loop over
\* defender.defenseStructures (the last structure of the type wins).
StructureLevel(structures, type, level) ==
    IF structures = <<>> THEN level
    ELSE StructureLevel(Tail(structures), type,
                        IF Head(structures).type = type THEN Head(structures).level ELSE level)

WallLevelOf(defender) ==
    IF defender.isDefending THEN StructureLevel(defender.defenseStructures, "WALLS", 0) ELSE 0

GuardTowerLevelOf(defender) ==
    IF defender.isDefending THEN StructureLevel(defender.defenseStructures, "GUARD_TOWER", 0) ELSE 0

\* manaMultiplier, in percent
ManaMultiplierOf(defender) ==
    IF defender.isDefending /\ defender.manaReserve # 0
    THEN getManaDefenseMultiplier(defender.manaReserve)
    ELSE 100

\* The locals of a call that keeps the wall of the call before it (a wall
\* counter living outside the function).
NewBattleKeepingWall(attacker, defender) ==
    [atkUnits                |-> Trackers(attacker.units),
     defUnits                |-> Trackers(defender.units),
     guardTowerDmg           |-> GUARD_TOWER_DAMAGE_PER_LEVEL * GuardTowerLevelOf(defender),
     wallHpRemaining         |-> IF callNo > 0 THEN battle.wallHpRemaining
                                 ELSE 100 * WALL_HP_PER_LEVEL * WallLevelOf(defender),
     manaMultiplier          |-> ManaMultiplierOf(defender),
     totalRangedAtkLost      |-> <<>>,
     totalRangedDefLost      |-> <<>>,
     totalWallDamageAbsorbed |-> 0,
     round                   |-> 0,
     totalLostBefore         |-> 0]

\* The locals of resolveCombat when the loop is entered.
NewBattle(attacker, defender) ==
    [atkUnits                |-> Trackers(attacker.units),
     defUnits                |-> Trackers(defender.units),
     guardTowerDmg           |-> GUARD_TOWER_DAMAGE_PER_LEVEL * GuardTowerLevelOf(defender),
     wallHpRemaining         |-> 100 * WALL_HP_PER_LEVEL * WallLevelOf(defender),
     manaMultiplier          |-> ManaMultiplierOf(defender),
     totalRangedAtkLost      |-> <<>>,
     totalRangedDefLost      |-> <<>>,
     totalWallDamageAbsorbed |-> 0,
     round                   |-> 0,
     totalLostBefore         |-> 0]

\* The loop condition and the first break of the loop body.
LoopContinues(b) ==
    b.round < MAX_ROUNDS /\ AnyAlive(b.atkUnits) /\ AnyAlive(b.defUnits)

\* A ranged volley in which the defender shoots with what the attacker's
\* arrows have left of it.
RangedVolleyInTurn(b) ==
    LET lostBeforeRanged == snapshotLost(b.atkUnits, b.defUnits)
        atkArcherRaw == SumOver(GroupRaw, LiveOfTypes(b.atkUnits, RANGED_TYPES))
        defAfter == IF atkArcherRaw > 0
                    THEN applyRangedProportional(atkArcherRaw, b.defUnits)
                    ELSE b.defUnits
        totalDefRanged == SumOver(GroupRaw, LiveOfTypes(defAfter, RANGED_TYPES))
                          + b.guardTowerDmg
        atkAfter == IF totalDefRanged > 0
                    THEN applyRangedSpeedOrder(totalDefRanged, b.atkUnits)
                    ELSE b.atkUnits
    IN  [b EXCEPT
            !.totalLostBefore = sumLost(b.atkUnits) + sumLost(b.defUnits),
            !.atkUnits = atkAfter,
            !.defUnits = defAfter,
            !.totalRangedAtkLost =
                accumulateDelta(atkAfter, lostBeforeRanged.atk, b.totalRangedAtkLost),
            !.totalRangedDefLost =
                accumulateDelta(defAfter, lostBeforeRanged.def, b.totalRangedDefLost)]

\* The ranged volley of one round, with the bookkeeping before and after it.
RangedVolley(b) ==
    LET lostBeforeRanged == snapshotLost(b.atkUnits, b.defUnits)
        atkArcherRaw == SumOver(GroupRaw, LiveOfTypes(b.atkUnits, RANGED_TYPES))
        defArcherRaw == SumOver(GroupRaw, LiveOfTypes(b.defUnits, RANGED_TYPES))
        totalDefRanged == defArcherRaw + b.guardTowerDmg
        defAfter == IF atkArcherRaw > 0
                    THEN applyRangedProportional(atkArcherRaw, b.defUnits)
                    ELSE b.defUnits
        atkAfter == IF totalDefRanged > 0
                    THEN applyRangedSpeedOrder(totalDefRanged, b.atkUnits)
                    ELSE b.atkUnits
    IN  [b EXCEPT
            !.totalLostBefore = sumLost(b.atkUnits) + sumLost(b.defUnits),
            !.atkUnits = atkAfter,
            !.defUnits = defAfter,
            !.totalRangedAtkLost =
                accumulateDelta(atkAfter, lostBeforeRanged.atk, b.totalRangedAtkLost),
            !.totalRangedDefLost =
                accumulateDelta(defAfter, lostBeforeRanged.def, b.totalRangedDefLost)]

\* A loop that goes on to the melee whatever the volley has left.
NeverWipedAfterRanged(b) == FALSE

\* The break after the ranged volley.
WipedAfterRanged(b) == ~AnyAlive(b.atkUnits) \/ ~AnyAlive(b.defUnits)

\* A charge that the CAVALRY keeps up in every round.
AtkMeleeRawCharging(u, round) ==
    IF u.unitType = "CAVALRY"
    THEN AttackOf(u.unitType) * u.quantity * CAVALRY_CHARGE_MULTIPLIER
    ELSE AttackOf(u.unitType) * u.quantity * 100

\* (s?.attack ?? 0) * quantity, times the charge multiplier for CAVALRY in
\* round 0; in hundredths.
AtkMeleeRawOfGroup(u, round) ==
    IF round = 0 /\ u.unitType = "CAVALRY"
    THEN AttackOf(u.unitType) * u.quantity * CAVALRY_CHARGE_MULTIPLIER
    ELSE AttackOf(u.unitType) * u.quantity * 100

\* The wall taking the whole melee damage, whatever is left of it.
WallAbsorbedUncapped(totalAtkMeleeRaw, wallHpRemaining) == totalAtkMeleeRaw

\* A wall that lets the whole melee damage through.
WallAbsorbsNothing(totalAtkMeleeRaw, wallHpRemaining) == 0

\* Math.min(totalAtkMeleeRaw, wallHpRemaining)
WallAbsorbed(totalAtkMeleeRaw, wallHpRemaining) == Min(totalAtkMeleeRaw, wallHpRemaining)

\* The melee sub-phase of one round.
Melee(b) ==
    LET atkMelee == LiveOfTypes(b.atkUnits, MELEE_TYPES)
        raw(u) == AtkMeleeRawOfGroup(u, b.round)
        totalAtkMeleeRaw == SumOver(raw, atkMelee)
        defMelee == LiveOfTypes(b.defUnits, MELEE_TYPES)
        totalDefMeleeRaw == SumOver(GroupRaw, defMelee) * b.manaMultiplier
        wallAbsorbed == WallAbsorbed(totalAtkMeleeRaw, b.wallHpRemaining)
        dmgAfterWall == totalAtkMeleeRaw - wallAbsorbed
    IN  [b EXCEPT
            !.wallHpRemaining = b.wallHpRemaining - wallAbsorbed,
            !.totalWallDamageAbsorbed = b.totalWallDamageAbsorbed + wallAbsorbed,
            !.defUnits = IF dmgAfterWall > 0
                         THEN applyMeleeProportional(dmgAfterWall, atkMelee, b.defUnits)
                         ELSE b.defUnits,
            !.atkUnits = IF totalDefMeleeRaw > 0
                         THEN applyMeleeProportional(totalDefMeleeRaw, defMelee, b.atkUnits)
                         ELSE b.atkUnits]

\* A loop without the no-casualties break.
NeverStalled(b) == FALSE

\* The last break of the loop body: the round killed nobody.
NoKillsThisRound(b) == sumLost(b.atkUnits) + sumLost(b.defUnits) = b.totalLostBefore

\* Winner determination that gives a tie of power to the attacker.
AttackerWinsOnTie(b) ==
    IF ~AnyAlive(b.defUnits) THEN TRUE
    ELSE IF ~AnyAlive(b.atkUnits) THEN FALSE
    ELSE SumOver(GroupRaw, b.atkUnits) >= SumOver(GroupRaw, b.defUnits)

\* Winner determination after the loop.
AttackerWins(b) ==
    IF ~AnyAlive(b.defUnits) THEN TRUE
    ELSE IF ~AnyAlive(b.atkUnits) THEN FALSE
    ELSE SumOver(GroupRaw, b.atkUnits) > SumOver(GroupRaw, b.defUnits)

\* The share of the loot pool, not capped by the carry capacity.
LootShareOfPool(attacker, defender, pct) == (defender.provisions * pct) \div 500

\* floor(actualLoot * pct / 100) with actualLoot = min(provisions * 0.2, capacity):
\* actualLoot is kept in fifths.
LootShare(attacker, defender, pct) ==
    LET actualLoot5 == Min(defender.provisions, 5 * getCarryCapacity(attacker.units))
    IN  (actualLoot5 * pct) \div 500

Loot(attacker, defender, attackerWins) ==
    IF attackerWins /\ hasCaravans(attacker.units)
    THEN [ore        |-> LootShare(attacker, defender, 40),
          provisions |-> LootShare(attacker, defender, 40),
          gold       |-> LootShare(attacker, defender, 20)]
    ELSE [ore |-> 0, provisions |-> 0, gold |-> 0]

LossesOf(units) ==
    LET dead == SelectSeq(units, LAMBDA u : u.lost > 0)
    IN  [i \in DOMAIN dead |-> [unitType |-> dead[i].unitType, lost |-> dead[i].lost]]

\* A melee breakdown that lists the whole losses of every group.
AllLossesAsMelee(units, totalRangedLost) ==
    LET dead == SelectSeq(units, LAMBDA u : u.lost > 0)
    IN  [i \in DOMAIN dead |-> [unitType |-> dead[i].unitType, lost |-> dead[i].lost]]

\* Melee losses = total losses minus ranged losses
MeleeLossesOf(units, totalRangedLost) ==
    LET dead == SelectSeq(units, LAMBDA u : u.lost - MapGet(totalRangedLost, u.unitType) > 0)
    IN  [i \in DOMAIN dead |->
            [unitType |-> dead[i].unitType,
             lost     |-> dead[i].lost - MapGet(totalRangedLost, dead[i].unitType)]]

\* The CombatResult built after the loop.
CombatResult(attacker, defender, b) ==
    [attackerWins   |-> AttackerWins(b),
     attackerLosses |-> LossesOf(b.atkUnits),
     defenderLosses |-> LossesOf(b.defUnits),
     loot           |-> Loot(attacker, defender, AttackerWins(b)),
     phases         |->
        [ranged |-> [attackerCasualties |-> mapToLossArray(b.totalRangedAtkLost),
                     defenderCasualties |-> mapToLossArray(b.totalRangedDefLost),
                     guardTowerDamage   |-> b.guardTowerDmg],
         melee  |-> [attackerCasualties |-> MeleeLossesOf(b.atkUnits, b.totalRangedAtkLost),
                     defenderCasualties |-> MeleeLossesOf(b.defUnits, b.totalRangedDefLost),
                     wallDamageAbsorbed |-> b.totalWallDamageAbsorbed]]]

RECURSIVE RunLoop(_)
\* The combat loop run to its exit.
RunLoop(b) ==
    IF ~LoopContinues(b) THEN b
    ELSE LET r == RangedVolley(b)
         IN  IF WipedAfterRanged(r) THEN r
             ELSE LET m == Melee(r)
                  IN  IF NoKillsThisRound(m) THEN m
                      ELSE RunLoop([m EXCEPT !.round = m.round + 1])

\* resolveCombat as the pure function its callers see.
resolveCombat(attacker, defender) ==
    CombatResult(attacker, defender, RunLoop(NewBattle(attacker, defender)))

\* ---------------------------------------------------------------------
\* NPC generator (lib/game/npc.ts)
\* ---------------------------------------------------------------------

\* A scaling that drops the half unit of a hideout.
RoundScaledDown(s, ratio, isHideout) ==
    IF isHideout THEN (3 * s * ratio) \div 2 ELSE s * ratio

\* Math.round(s * ratio * mult) with mult = 1.5 for hideouts and 1 otherwise:
\* s * ratio * 1.5 is a multiple of 0.5 and Math.round rounds halves up.
RoundScaled(s, ratio, isHideout) ==
    IF isHideout THEN (3 * s * ratio + 1) \div 2 ELSE s * ratio

generateNPCDefenders(strength, isHideout) ==
    [units |->
        <<[unitType |-> "INFANTRY", quantity |-> RoundScaled(strength, 5, isHideout)],
          [unitType |-> "ARCHER", quantity |-> RoundScaled(strength, 2, isHideout)]>>
        \o (IF strength >= 5
            THEN <<[unitType |-> "HEAVY_INFANTRY",
                    quantity |-> RoundScaled(strength, 1, isHideout)]>>
            ELSE <<>>),
     provisions        |-> IF isHideout THEN strength * 300 ELSE strength * 200,
     isDefending       |-> TRUE,
     defenseStructures |-> IF isHideout
                           THEN <<[type |-> "WALLS", level |-> Min(strength, 3)]>>
                           ELSE <<>>,
     manaReserve       |-> 0]

\* ---------------------------------------------------------------------
\* Bounds of the combat inputs
\* ---------------------------------------------------------------------

\* Most groups of an army
MaxGroups == 2

\* Quantity of a small group, besides 1
MaxQty == 4

\* Quantity of a large group (more than MAX_ROUNDS units)
BigQty == 55

\* Strongest NPC faction
MaxStrength == 5

\* Highest WALLS level of a garrison
MaxWallLevel == 2

\* Highest GUARD_TOWER level of a garrison
MaxTowerLevel == 1

AllUnitTypes == KnownUnitTypes \cup {UnknownUnitType}

TypeRank ==
    [t \in AllUnitTypes |->
        CASE t = "INFANTRY" -> 1 [] t = "ARCHER" -> 2 [] t = "HEAVY_INFANTRY" -> 3
          [] t = "WARDEN" -> 4 [] t = "CARAVAN" -> 5 [] t = "SCOUT" -> 6
          [] t = "CAVALRY" -> 7 [] OTHER -> 8]

Quantities == {1, MaxQty, BigQty}

Groups == [unitType : AllUnitTypes, quantity : Quantities]

\* The sequences of at most MaxGroups groups of pairwise different types, a
\* large group alone in its army, the types in table order or in the reverse of it
\* (the array order matters to the stable sort by speed only).
UnitLists ==
    UNION {{u \in [1..n -> Groups] :
                /\ \/ \A i, j \in 1..n : i < j => TypeRank[u[i].unitType] < TypeRank[u[j].unitType]
                   \/ \A i, j \in 1..n : i < j => TypeRank[u[i].unitType] > TypeRank[u[j].unitType]
                /\ \A i \in 1..n : u[i].quantity = BigQty => n = 1}
           : n \in 0..MaxGroups}

\* The marching armies.
AttackerInputs ==
    {[units |-> u, provisions |-> 0, isDefending |-> FALSE,
      defenseStructures |-> <<>>, manaReserve |-> 0] : u \in UnitLists}

\* The defenders of the NPC tiles.
NpcDefenderInputs ==
    {generateNPCDefenders(s, h) : s \in 1..MaxStrength, h \in BOOLEAN}

\* What a player settlement adds to its garrison: the defense records of
\* level > 0, the owner's mana reserve and the declared provisions.
SettlementProfiles ==
    {[defenseStructures |-> <<>>, manaReserve |-> 0, provisions |-> 0],
     [defenseStructures |-> <<[type |-> "WALLS", level |-> MaxWallLevel]>>,
      manaReserve |-> 250, provisions |-> 2000],
     [defenseStructures |-> <<[type |-> "GUARD_TOWER", level |-> MaxTowerLevel]>>,
      manaReserve |-> 2600, provisions |-> 7],
     [defenseStructures |-> <<[type |-> "WALLS", level |-> MaxWallLevel],
                              [type |-> "GUARD_TOWER", level |-> MaxTowerLevel]>>,
      manaReserve |-> 0, provisions |-> 2000]}

\* The garrisons of player settlements: at most one group.
GarrisonInputs ==
    {[units |-> u, provisions |-> p.provisions, isDefending |-> TRUE,
      defenseStructures |-> p.defenseStructures, manaReserve |-> p.manaReserve]
     : u \in {v \in UnitLists : Len(v) <= 1}, p \in SettlementProfiles}

\* A camp in the field: a defender that is not defending, whatever its record
\* holds of structures and mana.
FieldInputs ==
    {[units |-> <<[unitType |-> "INFANTRY", quantity |-> MaxQty]>>, provisions |-> 0,
      isDefending |-> FALSE,
      defenseStructures |-> <<[type |-> "WALLS", level |-> MaxWallLevel]>>,
      manaReserve |-> 250]}

DefenderInputs == NpcDefenderInputs \cup GarrisonInputs \cup FieldInputs

NoBattle == [round |-> 0]

NoResult == [attackerWins |-> FALSE]

\* ---------------------------------------------------------------------
\* resolveCombat as a state machine
\* ---------------------------------------------------------------------

\* No store: the state of the tick engine while resolveCombat is run by itself.
NoStore == [events |-> <<>>]

NoTick == [pc |-> "idle"]

NoWorld == [pc |-> "idle", queue |-> <<>>, log |-> <<>>]

NoInv == [outcome |-> "none"]

NoTickRuns ==
    /\ db = NoStore
    /\ tx = NoStore
    /\ tick = NoTick
    /\ clock = 0
    /\ world = NoWorld
    /\ inv = NoInv

\* One call of resolveCombat for every pair of inputs.
InitCombat ==
    /\ argAttacker \in AttackerInputs
    /\ argDefender \in DefenderInputs
    /\ calls = 1
    /\ battle = NoBattle
    /\ cpc = "idle"
    /\ callNo = 0
    /\ step = 0
    /\ firstRun = <<>>
    /\ result = NoResult
    /\ NoTickRuns

\* Where the loop goes from its head.
LoopHead(b) == IF LoopContinues(b) THEN "ranged" ELSE "winner"

\* The trace of the first call, for the comparison of the second with it.
Record(n, pc, b, r) ==
    IF calls = 2 /\ n = 1
    THEN Append(firstRun, [cpc |-> pc, battle |-> b, result |-> r])
    ELSE firstRun

\* resolveCombat is called: the trackers and the per-battle locals are set up.
EnterCombat ==
    /\ cpc \in {"idle", "done"}
    /\ callNo < calls
    /\ callNo' = callNo + 1
    /\ battle' = NewBattle(argAttacker, argDefender)
    /\ cpc' = LoopHead(battle')
    /\ step' = 1
    /\ result' = NoResult
    /\ firstRun' = Record(callNo', cpc', battle', result')
    /\ UNCHANGED <<argAttacker, argDefender, calls>>
    /\ UNCHANGED tvars

\* The ranged volley of the round, up to the wipe check after it.
RangedStep ==
    /\ cpc = "ranged"
    /\ battle' = RangedVolley(battle)
    /\ cpc' = IF WipedAfterRanged(battle') THEN "winner" ELSE "melee"
    /\ step' = step + 1
    /\ firstRun' = Record(callNo, cpc', battle', result)
    /\ UNCHANGED <<argAttacker, argDefender, calls, callNo, result>>
    /\ UNCHANGED tvars

\* The melee of the round, up to the head of the next round.
MeleeStep ==
    /\ cpc = "melee"
    /\ LET m == Melee(battle)
       IN  IF NoKillsThisRound(m)
           THEN battle' = m /\ cpc' = "winner"
           ELSE /\ battle' = [m EXCEPT !.round = m.round + 1]
                /\ cpc' = LoopHead(battle')
    /\ step' = step + 1
    /\ firstRun' = Record(callNo, cpc', battle', result)
    /\ UNCHANGED <<argAttacker, argDefender, calls, callNo, result>>
    /\ UNCHANGED tvars

\* Winner, loot and phase breakdown; the call returns.
ReturnResult ==
    /\ cpc = "winner"
    /\ result' = CombatResult(argAttacker, argDefender, battle)
    /\ cpc' = "done"
    /\ battle' = battle
    /\ step' = step + 1
    /\ firstRun' = Record(callNo, cpc', battle', result')
    /\ UNCHANGED <<argAttacker, argDefender, calls, callNo>>
    /\ UNCHANGED tvars

NextCombat == EnterCombat \/ RangedStep \/ MeleeStep \/ ReturnResult

SpecCombat == InitCombat /\ [][NextCombat]_vars

\* Two calls of resolveCombat, one after the other, with the same arguments.
InitCombatTwice ==
    /\ argAttacker \in AttackerInputs
    /\ argDefender \in NpcDefenderInputs \cup {g \in GarrisonInputs : g.provisions = 2000}
    /\ calls = 2
    /\ battle = NoBattle
    /\ cpc = "idle"
    /\ callNo = 0
    /\ step = 0
    /\ firstRun = <<>>
    /\ result = NoResult
    /\ NoTickRuns

SpecCombatTwice == InitCombatTwice /\ [][NextCombat]_vars

\* ---------------------------------------------------------------------
\* World tick: constants and tables (lib/game/tick.ts, lib/game/constants.ts)
\* ---------------------------------------------------------------------

\* Times are epoch milliseconds.  Stored resource amounts are doubles in the
\* source; the model keeps them in 1/3000 of a unit, in which every accrual
\* over a whole number of seconds is an integer.
Units(n) == 3000 * n

DEBOUNCE_MS == 5000

TICK_INTERVAL_MS == 30000

BASE_ORE_PER_TICK == 5

BASE_PROVISIONS_PER_TICK == 8

BASE_GOLD_PER_TICK == 2

BASE_MANA_PER_TICK == 0

\* The constants module at hand does not export the five tables and rates
\* below, which tick.ts imports from it; their values are those of the
\* repository's simulation script (sim.ts), BASE_LUMBER_PER_TICK excepted,
\* which no source at hand sets.
BASE_LUMBER_PER_TICK == 1

SAWMILL_BASE_PER_TICK == 4

\* MINE_LEVEL_MULTIPLIERS[level] ?? 1, in percent
MineMultiplier(level) ==
    CASE level = 2 -> 120 [] level = 3 -> 140 [] level = 4 -> 165 [] level = 5 -> 200
      [] OTHER -> 100

\* CROP_MASTERY_MULTIPLIERS[level] ?? 1, in tenths
CropMultiplier(level) ==
    CASE level = 1 -> 13 [] level = 2 -> 16 [] level = 3 -> 20 [] level = 4 -> 25
      [] level = 5 -> 30 [] OTHER -> 10

\* SAWMILL_LEVEL_MULTIPLIERS[level] ?? 1, in tenths
SawmillMultiplier(level) ==
    CASE level = 0 -> 0 [] level = 2 -> 13 [] level = 3 -> 16 [] level = 4 -> 20
      [] level = 5 -> 25 [] OTHER -> 10

\* FORESTRY_MULTIPLIERS[level] ?? 1, in tenths
ForestryMultiplier(level) ==
    CASE level = 1 -> 12 [] level = 2 -> 14 [] level = 3 -> 17 [] level = 4 -> 20
      [] level = 5 -> 25 [] OTHER -> 10

\* FARM_LEVEL_MULTIPLIERS[level] ?? 1, in tenths
FarmMultiplier(level) ==
    CASE level = 2 -> 13 [] level = 3 -> 16 [] level = 4 -> 20 [] level = 5 -> 25
      [] OTHER -> 10

\* UNIT_UPKEEP_PER_TICK[unitType] ?? 0, in tenths
UnitUpkeep(t) ==
    CASE t \in {"INFANTRY", "ARCHER"} -> 5
      [] t = "HEAVY_INFANTRY" -> 8
      [] t \in {"WARDEN", "SCOUT"} -> 3
      [] t = "CARAVAN" -> 10
      [] t = "CAVALRY" -> 15
      [] OTHER -> 0

\* PVP_LOOT_PERCENT = 0.15, in percent
PVP_LOOT_PERCENT == 15

\* 24 * 60 * 60 * 1000
PROTECTION_DURATION_MS == 86400000

\* A timestamp column holding NULL
NoTime == 0 - 1

\* ---------------------------------------------------------------------
\* World tick: the persistent store
\* ---------------------------------------------------------------------

\* A store is a record of tables, each table a sequence of rows in the order
\* findMany returns them (playerResources: a function of the players that
\* have a row; mapTiles: a function of the tile ids):
\*   resources       [ore, provisions, gold, lumber, mana, oreCap, provisionsCap,
\*                    goldCap, lumberCap, manaCap, lastTickAt]
\*   settlements     [id, playerId, tileId, protectedUntil]
\*   buildings       [id, settlementId, type, level, isBuilt, upgradeStartedAt,
\*                    upgradeFinishAt]
\*   defenses        [id, settlementId, type, level, upgradeStartedAt, upgradeFinishAt]
\*   researchStates  [playerId, track, level]
\*   activeResearch  [playerId, track, finishAt]
\*   unitQueues      [id, settlementId, unitType, quantity, finishAt]
\*   settlementUnits [settlementId, unitType, quantity]
\*   armies          [id, playerId, scout, status, fromTileId, toTileId, departedAt,
\*                    arrivesAt, provisions, armyUnits]
\*   tiles           [npcFaction, isHideout, hasSettlement, ownerId]
\*   events          [playerId, type, ref]
\* `scout` stands for name.startsWith('Scout Mission'); npcFaction is <<>> for
\* a NULL npcFactionId and <<[strength, aggressionLevel]>> otherwise; ownerId
\* is "" for NULL.

\* rows.map(r => pred(r) ? change(r) : r)
UpdateWhere(rows, pred(_), change(_)) ==
    [i \in DOMAIN rows |-> IF pred(rows[i]) THEN change(rows[i]) ELSE rows[i]]

\* rows.filter(r => !pred(r))
DeleteWhere(rows, pred(_)) == SelectSeq(rows, LAMBDA r : ~pred(r))

\* rows.find(pred) exists
Exists(rows, pred(_)) == \E i \in DOMAIN rows : pred(rows[i])

\* rows.find(pred), for rows that hold a match
Find(rows, pred(_)) ==
    rows[CHOOSE i \in DOMAIN rows :
            pred(rows[i]) /\ \A j \in DOMAIN rows : pred(rows[j]) => i <= j]

\* tx.gameEvent.create
WithEvent(s, playerId, type, ref) ==
    [s EXCEPT !.events = Append(@, [playerId |-> playerId, type |-> type, ref |-> ref])]

\* tx.gameEvent.create with a reason in the data of the event
WithEventFor(s, playerId, type, ref, reason) ==
    [s EXCEPT !.events = Append(@, [playerId |-> playerId, type |-> type, ref |-> ref,
                                    reason |-> reason])]

\* tx.settlement.findMany({ where: { playerId } })
SettlementsOf(s, playerId) ==
    SelectSeq(s.settlements, LAMBDA x : x.playerId = playerId)

RECURSIVE BuildingsOf(_, _)
\* settlements.flatMap(s => s.buildings)
BuildingsOf(s, settlements) ==
    IF settlements = <<>> THEN <<>>
    ELSE SelectSeq(s.buildings, LAMBDA b : b.settlementId = Head(settlements).id)
         \o BuildingsOf(s, Tail(settlements))

\* settlement.settlementUnits
GarrisonOf(s, settlementId) ==
    SelectSeq(s.settlementUnits, LAMBDA u : u.settlementId = settlementId)

\* tx.army.findMany({ where: { playerId, status: { in: [MARCHING, RETURNING, IDLE] } } })
ArmiesOf(s, playerId) ==
    SelectSeq(s.armies, LAMBDA a : a.playerId = playerId
                                   /\ a.status \in {"MARCHING", "RETURNING", "IDLE"})

\* A garrison write that stores the quantity brought and forgets the
\* quantity held.
SetInGarrison(s, settlementId, unitType, quantity) ==
    LET mine(u) == u.settlementId = settlementId /\ u.unitType = unitType
        put(u) == [u EXCEPT !.quantity = quantity]
    IN  IF Exists(s.settlementUnits, mine)
        THEN [s EXCEPT !.settlementUnits = UpdateWhere(@, mine, put)]
        ELSE [s EXCEPT !.settlementUnits =
                 Append(@, [settlementId |-> settlementId, unitType |-> unitType,
                            quantity |-> quantity])]

\* The garrison of a settlement gains `quantity` units of a type: the row of
\* the type is updated, or created when there is none.
AddToGarrison(s, settlementId, unitType, quantity) ==
    LET mine(u) == u.settlementId = settlementId /\ u.unitType = unitType
        first == Find(s.settlementUnits, mine)
        isFirst(u) == u = first
        grow(u) == [u EXCEPT !.quantity = u.quantity + quantity]
    IN  IF Exists(s.settlementUnits, mine)
        THEN [s EXCEPT !.settlementUnits = UpdateWhere(@, isFirst, grow)]
        ELSE [s EXCEPT !.settlementUnits =
                 Append(@, [settlementId |-> settlementId, unitType |-> unitType,
                            quantity |-> quantity])]

\* ---------------------------------------------------------------------
\* World tick: processPlayerTick, step by step
\* ---------------------------------------------------------------------

\* A debounce that only stops a clock that ran backwards.
DebouncedOnlyBackwards(elapsedMs) == elapsedMs < 0

\* elapsedMs < DEBOUNCE_MS
Debounced(elapsedMs) == elapsedMs < DEBOUNCE_MS

\* rate * tickMultiplier in 1/3000 of a unit, for a rate given in 1/scale:
\* rate / scale * (elapsedMs / TICK_INTERVAL_MS) * 3000.
PerTick(rate, scale, elapsedMs) ==
    (rate * elapsedMs) \div ((scale * TICK_INTERVAL_MS) \div Units(1))

\* An accrual that takes no building to be mid-upgrade.
NeverUpgrading(buildings, type, now) == FALSE

\* b.upgradeFinishAt != null && b.upgradeFinishAt > now, for the first
\* building of the type, when there is one
IsUpgrading(buildings, type, now) ==
    LET ofType(b) == b.type = type
    IN  /\ Exists(buildings, ofType)
        /\ Find(buildings, ofType).upgradeFinishAt # NoTime
        /\ Find(buildings, ofType).upgradeFinishAt > now

\* building?.level ?? 0
LevelOf(buildings, type) ==
    LET ofType(b) == b.type = type
    IN  IF Exists(buildings, ofType) THEN Find(buildings, ofType).level ELSE 0

\* researchStates.find(r => r.track === track)?.level ?? 0
ResearchLevel(s, playerId, track) ==
    LET mine(r) == r.playerId = playerId /\ r.track = track
    IN  IF Exists(s.researchStates, mine) THEN Find(s.researchStates, mine).level ELSE 0

RECURSIVE GarrisonUpkeep(_, _)
\* The upkeep of the garrisons of `settlements`, in tenths per tick
GarrisonUpkeep(s, settlements) ==
    IF settlements = <<>> THEN 0
    ELSE LET upkeep(u) == u.quantity * UnitUpkeep(u.unitType)
         IN  SumOver(upkeep, GarrisonOf(s, Head(settlements).id))
             + GarrisonUpkeep(s, Tail(settlements))

\* The upkeep of the units of `armies`, in tenths per tick
ArmyUpkeep(armies) ==
    LET upkeep(u) == u.quantity * UnitUpkeep(u.unitType)
        ofArmy(a) == SumOver(upkeep, a.armyUnits)
    IN  SumOver(ofArmy, armies)

\* Step 4 of the tick: the five new resource totals, from the rows loaded at
\* the start of the transaction.
Accrue(s, playerId, now) ==
    LET resources == s.resources[playerId]
        elapsedMs == now - resources.lastTickAt
        settlements == SettlementsOf(s, playerId)
        allBuildings == BuildingsOf(s, settlements)
        armies == ArmiesOf(s, playerId)
        oreDelta ==
            IF IsUpgrading(allBuildings, "MINE", now) THEN 0
            ELSE PerTick(BASE_ORE_PER_TICK * MineMultiplier(LevelOf(allBuildings, "MINE")),
                         100, elapsedMs)
        provisionsProduction ==
            IF IsUpgrading(allBuildings, "FARM", now) THEN 0
            ELSE PerTick(BASE_PROVISIONS_PER_TICK
                             * FarmMultiplier(LevelOf(allBuildings, "FARM"))
                             * CropMultiplier(ResearchLevel(s, playerId, "CROP_MASTERY")),
                         100, elapsedMs)
        goldDelta == PerTick(BASE_GOLD_PER_TICK, 1, elapsedMs)
        isSawmill(b) == b.type = "SAWMILL"
        sawmillBuilt == Exists(allBuildings, isSawmill) /\ Find(allBuildings, isSawmill).isBuilt
        lumberDelta ==
            IF sawmillBuilt /\ ~IsUpgrading(allBuildings, "SAWMILL", now)
            THEN PerTick(SAWMILL_BASE_PER_TICK
                             * SawmillMultiplier(LevelOf(allBuildings, "SAWMILL"))
                             * ForestryMultiplier(ResearchLevel(s, playerId, "FORESTRY")),
                         100, elapsedMs)
            ELSE PerTick(BASE_LUMBER_PER_TICK, 1, elapsedMs)
        isObservatory(b) == b.type = "OBSERVATORY" /\ b.isBuilt
        manaDiscovered == Exists(allBuildings, isObservatory) /\ resources.manaCap > 0
        manaDelta == IF manaDiscovered THEN PerTick(BASE_MANA_PER_TICK, 1, elapsedMs) ELSE 0
        upkeepDrain == PerTick(GarrisonUpkeep(s, settlements) + ArmyUpkeep(armies),
                               10, elapsedMs)
        provisionsDelta == provisionsProduction - upkeepDrain
    IN  [newOre        |-> Min(resources.ore + oreDelta, resources.oreCap),
         newProvisions |-> Max(0, Min(resources.provisions + provisionsDelta,
                                      resources.provisionsCap)),
         newGold       |-> Min(resources.gold + goldDelta, resources.goldCap),
         newLumber     |-> Min(resources.lumber + lumberDelta, resources.lumberCap),
         newMana       |-> Min(resources.mana + manaDelta, resources.manaCap)]

\* Step 5: every building of the player whose upgrade has finished is built,
\* one level higher, with no upgrade pending.
CompleteBuildings(s, playerId, now) ==
    LET mine == {x.id : x \in {SettlementsOf(s, playerId)[i] :
                                   i \in DOMAIN SettlementsOf(s, playerId)}}
        completed(b) == /\ b.settlementId \in mine
                        /\ b.upgradeFinishAt # NoTime
                        /\ b.upgradeFinishAt <= now
        finish(b) == [b EXCEPT !.isBuilt = TRUE, !.level = b.level + 1,
                               !.upgradeStartedAt = NoTime, !.upgradeFinishAt = NoTime]
    IN  [s EXCEPT !.buildings = UpdateWhere(@, completed, finish)]

\* A step 6 that leaves the active research in place.
CompleteResearchKeepsActive(s, playerId, now) ==
    LET active(r) == r.playerId = playerId
        activeResearch == Find(s.activeResearch, active)
        existing(r) == r.playerId = playerId /\ r.track = activeResearch.track
        raise(r) == [r EXCEPT !.level = r.level + 1]
        raised == IF Exists(s.researchStates, existing)
                  THEN UpdateWhere(s.researchStates, existing, raise)
                  ELSE Append(s.researchStates,
                              [playerId |-> playerId, track |-> activeResearch.track,
                               level |-> 1])
    IN  IF Exists(s.activeResearch, active) /\ activeResearch.finishAt <= now
        THEN WithEvent([s EXCEPT !.researchStates = raised],
                       playerId, "RESEARCH_COMPLETE", activeResearch.track)
        ELSE s

\* Step 6: the active research, when finished, raises its track by one level
\* (a track without a row gets one at level 1), is deleted and reported.
CompleteResearch(s, playerId, now) ==
    LET active(r) == r.playerId = playerId
        activeResearch == Find(s.activeResearch, active)
        existing(r) == r.playerId = playerId /\ r.track = activeResearch.track
        raise(r) == [r EXCEPT !.level = r.level + 1]
        raised == IF Exists(s.researchStates, existing)
                  THEN UpdateWhere(s.researchStates, existing, raise)
                  ELSE Append(s.researchStates,
                              [playerId |-> playerId, track |-> activeResearch.track,
                               level |-> 1])
    IN  IF Exists(s.activeResearch, active) /\ activeResearch.finishAt <= now
        THEN WithEvent([s EXCEPT !.researchStates = raised,
                                 !.activeResearch = DeleteWhere(@, active)],
                       playerId, "RESEARCH_COMPLETE", activeResearch.track)
        ELSE s

RECURSIVE CompleteQueues(_, _, _)
\* The inner loop of step 7 over the finished queue entries of one settlement.
CompleteQueues(s, playerId, queues) ==
    IF queues = <<>> THEN s
    ELSE LET queue == Head(queues)
             this(q) == q.id = queue.id
             added == AddToGarrison(s, queue.settlementId, queue.unitType, queue.quantity)
         IN  CompleteQueues(
                 WithEvent([added EXCEPT !.unitQueues = DeleteWhere(@, this)],
                           playerId, "TRAINING_COMPLETE", queue.unitType),
                 playerId, Tail(queues))

RECURSIVE CompleteTraining(_, _, _, _)
\* Step 7: the finished training queues of every settlement join its garrison.
CompleteTraining(s, playerId, now, settlements) ==
    IF settlements = <<>> THEN s
    ELSE LET completed(q) == q.settlementId = Head(settlements).id /\ q.finishAt <= now
         IN  CompleteTraining(
                 CompleteQueues(s, playerId, SelectSeq(s.unitQueues, completed)),
                 playerId, now, Tail(settlements))

\* tx.armyUnit.deleteMany({ where: { armyId } }); tx.army.delete({ where: { id } })
DeleteArmy(s, armyId) ==
    LET this(a) == a.id = armyId
    IN  [s EXCEPT !.armies = DeleteWhere(@, this)]

\* The army turns back: RETURNING to its origin, the way back as long as the
\* way there.
SetReturning(s, army, now) ==
    LET this(a) == a.id = army.id
        back(a) == [a EXCEPT !.status = "RETURNING",
                             !.toTileId = army.fromTileId,
                             !.departedAt = now,
                             !.arrivesAt = now + (army.arrivesAt - army.departedAt)]
    IN  [s EXCEPT !.armies = UpdateWhere(@, this, back)]

RECURSIVE ReturnUnits(_, _, _)
\* The loop of a RETURNING arrival over army.armyUnits
ReturnUnits(s, settlementId, armyUnits) ==
    IF armyUnits = <<>> THEN s
    ELSE ReturnUnits(IF Head(armyUnits).quantity <= 0 THEN s
                     ELSE AddToGarrison(s, settlementId, Head(armyUnits).unitType,
                                        Head(armyUnits).quantity),
                     settlementId, Tail(armyUnits))

\* A RETURNING arrival that leaves the army standing at home.
ArriveHomeIdle(s, playerId, army) ==
    LET this(a) == a.id = army.id
        rest(a) == [a EXCEPT !.status = "IDLE"]
    IN  WithEvent([s EXCEPT !.armies = UpdateWhere(@, this, rest)],
                  playerId, "ARMY_RETURNED", army.id)

\* A RETURNING army arrives: its units join the garrison of the settlement on
\* its origin tile, when the player has one there, and the army is deleted.
ArriveHome(s, playerId, army) ==
    LET onOrigin(x) == x.tileId = army.fromTileId
        settlements == SettlementsOf(s, playerId)
        returned == IF Exists(settlements, onOrigin)
                    THEN ReturnUnits(s, Find(settlements, onOrigin).id, army.armyUnits)
                    ELSE s
    IN  WithEvent(DeleteArmy(returned, army.id), playerId, "ARMY_RETURNED", army.id)

\* army.toTileId ? tx.mapTile.findUnique(...) : null, found
HasDestTile(s, army) == army.toTileId \in DOMAIN s.tiles

\* destTile?.npcFaction is set
HasFaction(s, army) == HasDestTile(s, army) /\ s.tiles[army.toTileId].npcFaction # <<>>

\* Math.random() < faction.aggressionLevel * 0.05 can come out true
ScoutCanBeLost(s, army) ==
    HasFaction(s, army) /\ s.tiles[army.toTileId].npcFaction[1].aggressionLevel > 0

\* Math.random() < faction.aggressionLevel * 0.05 can come out false
ScoutCanSurvive(s, army) ==
    ~HasFaction(s, army) \/ s.tiles[army.toTileId].npcFaction[1].aggressionLevel < 20

\* A scout mission arrives: the scout is lost, or reports and turns back.
ArriveScout(s, playerId, army, now, lost) ==
    IF lost
    THEN WithEvent(DeleteArmy(s, army.id), playerId, "SCOUT_LOST", army.id)
    ELSE SetReturning(WithEvent(s, playerId, "SCOUT_REPORT", army.id), army, now)

RECURSIVE ApplyAttackerLossesKeepingRows(_, _, _)
\* A loop over result.attackerLosses that updates every unit row and deletes
\* none.
ApplyAttackerLossesKeepingRows(s, army, losses) ==
    IF losses = <<>> THEN s
    ELSE LET loss == Head(losses)
             ofType(u) == u.unitType = loss.unitType
             armyUnit == Find(army.armyUnits, ofType)
             row(u) == u = armyUnit
             keep(u) == [u EXCEPT !.quantity = armyUnit.quantity - loss.lost]
             this(a) == a.id = army.id
             lose(a) == [a EXCEPT !.armyUnits = UpdateWhere(@, row, keep)]
         IN  ApplyAttackerLossesKeepingRows(
                 IF Exists(army.armyUnits, ofType)
                 THEN [s EXCEPT !.armies = UpdateWhere(@, this, lose)]
                 ELSE s,
                 army, Tail(losses))

RECURSIVE ApplyAttackerLosses(_, _, _)
\* The loop over result.attackerLosses: the unit row of the type keeps what
\* is left of army.armyUnits' quantity, or is deleted when nothing is left.
ApplyAttackerLosses(s, army, losses) ==
    IF losses = <<>> THEN s
    ELSE LET loss == Head(losses)
             ofType(u) == u.unitType = loss.unitType
             armyUnit == Find(army.armyUnits, ofType)
             remaining == armyUnit.quantity - loss.lost
             row(u) == u = armyUnit
             keep(u) == [u EXCEPT !.quantity = remaining]
             this(a) == a.id = army.id
             lose(a) == [a EXCEPT !.armyUnits =
                            IF remaining <= 0 THEN DeleteWhere(@, row)
                            ELSE UpdateWhere(@, row, keep)]
         IN  ApplyAttackerLosses(
                 IF Exists(army.armyUnits, ofType)
                 THEN [s EXCEPT !.armies = UpdateWhere(@, this, lose)]
                 ELSE s,
                 army, Tail(losses))

\* { units: army.armyUnits.map(...), provisions: army.provisions, isDefending: false }
AttackerArmy(army) ==
    [units             |-> [i \in DOMAIN army.armyUnits |->
                               [unitType |-> army.armyUnits[i].unitType,
                                quantity |-> army.armyUnits[i].quantity]],
     provisions        |-> army.provisions,
     isDefending       |-> FALSE,
     defenseStructures |-> <<>>,
     manaReserve       |-> 0]

\* playerResources.update with { increment } (or, for negative amounts,
\* { decrement }) of whole units
IncrementResources(s, playerId, ore, provisions, gold, lumber) ==
    [s EXCEPT !.resources[playerId] =
        [@ EXCEPT !.ore = @ + Units(ore), !.provisions = @ + Units(provisions),
                  !.gold = @ + Units(gold), !.lumber = @ + Units(lumber)]]

\* What the battle against the NPC faction leaves: the losses and the loot
\* of a won battle are written, the tile is cleared and the army turns back;
\* a lost battle deletes the army.
NpcOutcome(s, playerId, army, now, res) ==
    LET afterLosses == ApplyAttackerLosses(s, army, res.attackerLosses)
        afterLoot == IF res.loot.ore > 0 \/ res.loot.provisions > 0 \/ res.loot.gold > 0
                     THEN IncrementResources(afterLosses, playerId, res.loot.ore,
                                             res.loot.provisions, res.loot.gold, 0)
                     ELSE afterLosses
        cleared == [afterLoot EXCEPT !.tiles[army.toTileId] =
                       [@ EXCEPT !.npcFaction = <<>>, !.isHideout = FALSE]]
    IN  IF res.attackerWins
        THEN WithEvent(SetReturning(cleared, army, now), playerId, "BATTLE_WON", army.id)
        ELSE WithEvent(DeleteArmy(s, army.id), playerId, "BATTLE_LOST", army.id)

\* A marching army arrives at a tile held by an NPC faction.
ArriveNpc(s, playerId, army, now) ==
    NpcOutcome(s, playerId, army, now,
               resolveCombat(AttackerArmy(army),
                             generateNPCDefenders(s.tiles[army.toTileId].npcFaction[1].strength,
                                                  s.tiles[army.toTileId].isHideout)))

\* getCarryCapacityFromArmyUnits
getCarryCapacityFromArmyUnits(armyUnits) == SumOver(CarryOfGroup, armyUnits)

\* A PvP loot of 15% of each resource whatever the army can carry.
PvpLootUncapped(attackerWins, hasResources, defenderResources, carryCapacity) ==
    LET share(x) == (x * PVP_LOOT_PERCENT) \div (100 * Units(1))
    IN  IF attackerWins /\ hasResources /\ carryCapacity > 0
        THEN [ore        |-> share(defenderResources.ore),
              provisions |-> share(defenderResources.provisions),
              gold       |-> share(defenderResources.gold),
              lumber     |-> share(defenderResources.lumber)]
        ELSE [ore |-> 0, provisions |-> 0, gold |-> 0, lumber |-> 0]

\* The PvP loot, in whole units, from the defender's stored resources (in
\* 1/3000): 15% of each resource, floored, when that fits the carry capacity,
\* and the capacity split in proportion to the four resources otherwise.
PvpLoot(attackerWins, hasResources, defenderResources, carryCapacity) ==
    LET total == defenderResources.ore + defenderResources.provisions
                 + defenderResources.gold + defenderResources.lumber
        fits == total * PVP_LOOT_PERCENT <= carryCapacity * 100 * Units(1)
        share(x) == IF fits THEN (x * PVP_LOOT_PERCENT) \div (100 * Units(1))
                    ELSE (x * carryCapacity) \div total
    IN  IF attackerWins /\ hasResources /\ carryCapacity > 0 /\ total > 0
        THEN [ore        |-> share(defenderResources.ore),
              provisions |-> share(defenderResources.provisions),
              gold       |-> share(defenderResources.gold),
              lumber     |-> share(defenderResources.lumber)]
        ELSE [ore |-> 0, provisions |-> 0, gold |-> 0, lumber |-> 0]

RECURSIVE ApplyDefenderLosses(_, _, _)
\* The loop over result.defenderLosses: the garrison row of the type keeps
\* max(0, quantity - lost), the quantity being the one loaded with the tile.
ApplyDefenderLosses(s, garrison, losses) ==
    IF losses = <<>> THEN s
    ELSE LET loss == Head(losses)
             ofType(u) == u.unitType = loss.unitType
             sUnit == Find(garrison, ofType)
             row(u) == u = sUnit
             keep(u) == [u EXCEPT !.quantity = Max(0, sUnit.quantity - loss.lost)]
         IN  ApplyDefenderLosses(
                 IF Exists(garrison, ofType)
                 THEN [s EXCEPT !.settlementUnits = UpdateWhere(@, row, keep)]
                 ELSE s,
                 garrison, Tail(losses))

\* Every defense structure of the settlement with level > 0 falls to level 0,
\* its upgrade cancelled.
DestroyDefenses(s, settlementId) ==
    LET standing(d) == d.settlementId = settlementId /\ d.level > 0
        raze(d) == [d EXCEPT !.level = 0, !.upgradeStartedAt = NoTime,
                             !.upgradeFinishAt = NoTime]
    IN  [s EXCEPT !.defenses = UpdateWhere(@, standing, raze)]

\* A sack that opens no protection window.
ProtectNothing(s, settlementId, now) == s

\* tx.settlement.update({ data: { protectedUntil: now + PROTECTION_DURATION_MS } })
Protect(s, settlementId, now) ==
    LET this(x) == x.id = settlementId
        shield(x) == [x EXCEPT !.protectedUntil = now + PROTECTION_DURATION_MS]
    IN  [s EXCEPT !.settlements = UpdateWhere(@, this, shield)]

\* destTile.hasSettlement && destTile.ownerId && destTile.ownerId !== playerId
IsEnemySettlement(s, playerId, army) ==
    /\ HasDestTile(s, army)
    /\ s.tiles[army.toTileId].hasSettlement
    /\ s.tiles[army.toTileId].ownerId # ""
    /\ s.tiles[army.toTileId].ownerId # playerId

\* tx.settlement.findFirst({ where: { tileId: destTile.id } }), as a sequence
\* of at most one settlement
TargetSettlement(s, army) == SelectSeq(s.settlements, LAMBDA x : x.tileId = army.toTileId)

\* A protection check that lets every army through.
NeverProtected(onTile, now) == FALSE

\* targetSettlement?.protectedUntil && targetSettlement.protectedUntil > now
IsProtected(onTile, now) ==
    /\ onTile # <<>>
    /\ onTile[1].protectedUntil # NoTime
    /\ onTile[1].protectedUntil > now

\* The garrison rows loaded with the target settlement
TargetGarrison(s, onTile) == IF onTile # <<>> THEN GarrisonOf(s, onTile[1].id) ELSE <<>>

\* The defender of a PvP battle: the garrison groups with quantity > 0, the
\* defense structures with level > 0 and the owner's whole mana.
DefenderArmy(s, ownerId, onTile, garrison) ==
    LET live == SelectSeq(garrison, LAMBDA u : u.quantity > 0)
        built == IF onTile # <<>>
                 THEN SelectSeq(s.defenses, LAMBDA d : d.settlementId = onTile[1].id
                                                       /\ d.level > 0)
                 ELSE <<>>
    IN  [units             |-> [i \in DOMAIN live |->
                                   [unitType |-> live[i].unitType,
                                    quantity |-> live[i].quantity]],
         provisions        |-> 0,
         isDefending       |-> TRUE,
         defenseStructures |-> [i \in DOMAIN built |->
                                   [type |-> built[i].type, level |-> built[i].level]],
         manaReserve       |-> IF ownerId \in DOMAIN s.resources
                               THEN s.resources[ownerId].mana \div Units(1)
                               ELSE 0]

\* A PvP loot carried by the units that are left after the battle.
LootOfSurvivors(s, ownerId, army, attackerWins) ==
    LET onTile == TargetSettlement(s, army)
        res == resolveCombat(AttackerArmy(army),
                             DefenderArmy(s, ownerId, onTile, TargetGarrison(s, onTile)))
        this(a) == a.id = army.id
        survivors == Find(ApplyAttackerLosses(s, army, res.attackerLosses).armies,
                          this).armyUnits
    IN  PvpLoot(attackerWins, ownerId \in DOMAIN s.resources,
                IF ownerId \in DOMAIN s.resources THEN s.resources[ownerId]
                ELSE [ore |-> 0, provisions |-> 0, gold |-> 0, lumber |-> 0],
                getCarryCapacityFromArmyUnits(survivors))

\* The loot of a won PvP battle, from the defender's row as it was loaded
LootOf(s, ownerId, army, attackerWins) ==
    PvpLoot(attackerWins, ownerId \in DOMAIN s.resources,
            IF ownerId \in DOMAIN s.resources THEN s.resources[ownerId]
            ELSE [ore |-> 0, provisions |-> 0, gold |-> 0, lumber |-> 0],
            getCarryCapacityFromArmyUnits(army.armyUnits))

\* The attacker won: both sides' losses are written, the defenses fall, the
\* settlement is protected, the loot moves and the army turns back.
PvpWon(s, playerId, army, now, ownerId, onTile, garrison, res, loot) ==
    LET afterAtk == ApplyAttackerLosses(s, army, res.attackerLosses)
        sacked == IF onTile # <<>>
                  THEN Protect(DestroyDefenses(
                                   ApplyDefenderLosses(afterAtk, garrison, res.defenderLosses),
                                   onTile[1].id),
                               onTile[1].id, now)
                  ELSE afterAtk
        looted == IF loot.ore > 0 \/ loot.provisions > 0 \/ loot.gold > 0 \/ loot.lumber > 0
                  THEN IncrementResources(
                           IncrementResources(sacked, ownerId, 0 - loot.ore,
                                              0 - loot.provisions, 0 - loot.gold,
                                              0 - loot.lumber),
                           playerId, loot.ore, loot.provisions, loot.gold, loot.lumber)
                  ELSE sacked
    IN  WithEvent(
            WithEvent(SetReturning(looted, army, now), playerId, "BATTLE_WON", army.id),
            ownerId, "SETTLEMENT_ATTACKED", army.id)

\* A lost attack that leaves the garrison as it was.
PvpLostKeepsGarrison(s, playerId, army, ownerId, onTile, garrison, res) ==
    WithEvent(WithEvent(DeleteArmy(s, army.id), playerId, "BATTLE_LOST", army.id),
              ownerId, "SETTLEMENT_DEFENDED", army.id)

\* The attacker lost: the army is deleted and the defender's losses are
\* written.
PvpLost(s, playerId, army, ownerId, onTile, garrison, res) ==
    WithEvent(
        WithEvent(DeleteArmy(IF onTile # <<>>
                             THEN ApplyDefenderLosses(s, garrison, res.defenderLosses)
                             ELSE s,
                             army.id),
                  playerId, "BATTLE_LOST", army.id),
        ownerId, "SETTLEMENT_DEFENDED", army.id)

\* The battle for a settlement and what it leaves
PvpBattle(s, playerId, army, now, ownerId, onTile, garrison, res) ==
    IF res.attackerWins
    THEN PvpWon(s, playerId, army, now, ownerId, onTile, garrison, res,
                LootOf(s, ownerId, army, res.attackerWins))
    ELSE PvpLost(s, playerId, army, ownerId, onTile, garrison, res)

\* The target settlement is loaded and, unless it is protected, fought for.
PvpAttack(s, playerId, army, now, ownerId, onTile) ==
    IF IsProtected(onTile, now)
    THEN WithEventFor(SetReturning(s, army, now), playerId, "ARMY_RETURNED", army.id,
                      "PROTECTION_ACTIVE")
    ELSE PvpBattle(s, playerId, army, now, ownerId, onTile, TargetGarrison(s, onTile),
                   resolveCombat(AttackerArmy(army),
                                 DefenderArmy(s, ownerId, onTile, TargetGarrison(s, onTile))))

\* A marching army arrives at the settlement of another player.
ArrivePvp(s, playerId, army, now) ==
    PvpAttack(s, playerId, army, now, s.tiles[army.toTileId].ownerId,
              TargetSettlement(s, army))

\* A marching army arrives at an empty tile or at a tile of its owner.
ArrivePeaceful(s, playerId, army) ==
    LET this(a) == a.id = army.id
        rest(a) == [a EXCEPT !.status = "IDLE"]
    IN  WithEvent([s EXCEPT !.armies = UpdateWhere(@, this, rest)],
                  playerId, "ARMY_ARRIVED", army.id)

\* army.arrivesAt == null || army.arrivesAt > now
NotArrived(army, now) == army.arrivesAt = NoTime \/ army.arrivesAt > now

\* The body of the loop of step 8 for one army; `lost` is the draw of
\* Math.random() against the scout's loss chance.
ArmyArrival(s, playerId, army, now, lost) ==
    IF NotArrived(army, now) THEN s
    ELSE IF army.status = "RETURNING" THEN ArriveHome(s, playerId, army)
    ELSE IF army.scout THEN ArriveScout(s, playerId, army, now, lost)
    ELSE IF HasFaction(s, army) THEN ArriveNpc(s, playerId, army, now)
    ELSE IF IsEnemySettlement(s, playerId, army) THEN ArrivePvp(s, playerId, army, now)
    ELSE ArrivePeaceful(s, playerId, army)

\* A step 9 that writes the totals and leaves the timestamp alone.
WriteResourcesUnstamped(s, playerId, accrued, now) ==
    [s EXCEPT !.resources[playerId] =
        [@ EXCEPT !.ore = accrued.newOre, !.provisions = accrued.newProvisions,
                  !.gold = accrued.newGold, !.lumber = accrued.newLumber,
                  !.mana = accrued.newMana]]

\* Step 9: the resource totals of step 4 and the timestamp of the tick are
\* written over the row.
WriteResources(s, playerId, accrued, now) ==
    [s EXCEPT !.resources[playerId] =
        [@ EXCEPT !.ore = accrued.newOre, !.provisions = accrued.newProvisions,
                  !.gold = accrued.newGold, !.lumber = accrued.newLumber,
                  !.mana = accrued.newMana, !.lastTickAt = now]]

\* ---------------------------------------------------------------------
\* World tick: the world the ticks run in
\* ---------------------------------------------------------------------

\* The players; "p3" has no playerResources row.
Players == {"p1", "p2", "p3"}

\* The moments the clock can show
Times == {4000, 5000, 9000, 10000}

\* The way between two different tiles of the worlds explored, in tenths of
\* a tile.
MarchDistance10 == 1

Row(ore, provisions, gold, lumber, mana) ==
    [ore |-> Units(ore), provisions |-> Units(provisions), gold |-> Units(gold),
     lumber |-> Units(lumber), mana |-> Units(mana),
     oreCap |-> Units(101), provisionsCap |-> Units(300), goldCap |-> Units(100),
     lumberCap |-> Units(100), manaCap |-> Units(500), lastTickAt |-> 0]

Army(id, playerId, scout, status, toTileId, arrivesAt, armyUnits) ==
    [id |-> id, playerId |-> playerId, scout |-> scout, status |-> status,
     fromTileId |-> IF playerId = "p1" THEN "t1" ELSE "t2", toTileId |-> toTileId,
     departedAt |-> 0, arrivesAt |-> arrivesAt, provisions |-> 0,
     armyUnits |-> armyUnits]

Group(unitType, quantity) == [unitType |-> unitType, quantity |-> quantity]

\* The armies a world can start with: a raid on the NPC camp, an attack on
\* the settlement of p2, a scout mission, an army on its way home, a march
\* to an empty tile, and an attack of p2 on the settlement of p1.
ArmyTemplates ==
    {Army("a1", "p1", FALSE, "MARCHING", "t3", 5000,
          <<Group("CAVALRY", 4), Group("CARAVAN", 1)>>),
     Army("a2", "p1", FALSE, "MARCHING", "t2", 5000,
          <<Group("INFANTRY", 4), Group("CARAVAN", 1)>>),
     Army("a3", "p1", TRUE, "MARCHING", "t3", 5000, <<Group("SCOUT", 1)>>),
     Army("a4", "p1", FALSE, "RETURNING", "t1", 5000,
          <<Group("INFANTRY", 2), Group("ARCHER", 1)>>),
     Army("a5", "p1", FALSE, "MARCHING", "t4", 10000, <<Group("INFANTRY", 1)>>),
     Army("b1", "p2", FALSE, "MARCHING", "t1", 10000, <<Group("ARCHER", 1)>>)}

\* The army tables a world can start with: none, one army, or one of three
\* pairs of armies.
ArmyTables ==
    LET a(id) == CHOOSE x \in ArmyTemplates : x.id = id
    IN  {<<>>} \cup {<<x>> : x \in ArmyTemplates}
               \cup {<<a("a1"), a("a4")>>, <<a("a2"), a("b1")>>, <<a("a3"), a("a5")>>}

InitialStore(armies) ==
    [resources       |-> [p \in {"p1", "p2"} |->
                            IF p = "p1" THEN Row(100, 50, 10, 20, 0)
                            ELSE Row(60, 40, 20, 10, 250)],
     settlements     |-> <<[id |-> "s1", playerId |-> "p1", tileId |-> "t1",
                            protectedUntil |-> NoTime],
                           [id |-> "s2", playerId |-> "p2", tileId |-> "t2",
                            protectedUntil |-> NoTime]>>,
     buildings       |-> <<[id |-> "b1", settlementId |-> "s1", type |-> "MINE", level |-> 1,
                            isBuilt |-> TRUE, upgradeStartedAt |-> 0,
                            upgradeFinishAt |-> 10000],
                           [id |-> "b2", settlementId |-> "s1", type |-> "FARM", level |-> 2,
                            isBuilt |-> TRUE, upgradeStartedAt |-> NoTime,
                            upgradeFinishAt |-> NoTime],
                           [id |-> "b3", settlementId |-> "s1", type |-> "SAWMILL",
                            level |-> 0, isBuilt |-> FALSE, upgradeStartedAt |-> 0,
                            upgradeFinishAt |-> 5000],
                           [id |-> "b4", settlementId |-> "s2", type |-> "MINE", level |-> 2,
                            isBuilt |-> TRUE, upgradeStartedAt |-> NoTime,
                            upgradeFinishAt |-> NoTime]>>,
     defenses        |-> <<[id |-> "d1", settlementId |-> "s2", type |-> "WALLS",
                            level |-> 1, upgradeStartedAt |-> NoTime,
                            upgradeFinishAt |-> NoTime]>>,
     researchStates  |-> <<[playerId |-> "p1", track |-> "CROP_MASTERY", level |-> 1]>>,
     activeResearch  |-> <<[playerId |-> "p1", track |-> "FORESTRY", finishAt |-> 5000]>>,
     unitQueues      |-> <<[id |-> "q1", settlementId |-> "s1", unitType |-> "INFANTRY",
                            quantity |-> 2, finishAt |-> 5000],
                           [id |-> "q2", settlementId |-> "s1", unitType |-> "ARCHER",
                            quantity |-> 1, finishAt |-> 10000]>>,
     settlementUnits |-> <<[settlementId |-> "s1", unitType |-> "INFANTRY", quantity |-> 3],
                           [settlementId |-> "s2", unitType |-> "WARDEN", quantity |-> 1]>>,
     armies          |-> armies,
     tiles           |-> [t \in {"t1", "t2", "t3", "t4"} |->
                            CASE t = "t1" -> [npcFaction |-> <<>>, isHideout |-> FALSE,
                                              hasSettlement |-> TRUE, ownerId |-> "p1"]
                              [] t = "t2" -> [npcFaction |-> <<>>, isHideout |-> FALSE,
                                              hasSettlement |-> TRUE, ownerId |-> "p2"]
                              [] t = "t3" -> [npcFaction |-> <<[strength |-> 1,
                                                               aggressionLevel |-> 2]>>,
                                              isHideout |-> FALSE,
                                              hasSettlement |-> FALSE, ownerId |-> ""]
                              [] OTHER    -> [npcFaction |-> <<>>, isHideout |-> FALSE,
                                              hasSettlement |-> FALSE, ownerId |-> ""]],
     events          |-> <<>>]

\* ---------------------------------------------------------------------
\* World tick: processPlayerTick and processWorldTick as a state machine
\* ---------------------------------------------------------------------

\* The interactive transaction: what the store holds once the callback has
\* returned, and once it has thrown.
Commit(committed, working) == working

\* A transaction that persisted every write as it was issued.
RollbackKeepsWrites(committed, working) == working

Rollback(committed, working) == committed

\* The catch block of processWorldTick rethrowing: the batch ends there.
OnTickErrorRethrown(w, playerId, now) ==
    [pc |-> "raised", queue |-> <<>>,
     log |-> Append(w.log, [player |-> playerId, outcome |-> "failed", now |-> now])]

\* The catch block of processWorldTick: the failure is logged and the loop
\* goes on with the next player.
OnTickError(w, playerId, now) ==
    [w EXCEPT !.queue = Tail(@),
              !.log = Append(@, [player |-> playerId, outcome |-> "failed", now |-> now])]

\* processPlayerTick returned to the loop of processWorldTick.
OnTickReturn(w, playerId, outcome, now) ==
    [w EXCEPT !.queue = Tail(@),
              !.log = Append(@, [player |-> playerId, outcome |-> outcome, now |-> now])]

\* The world ticks over a store with one of the army tables.
InitTick ==
    /\ \E armies \in ArmyTables : db = InitialStore(armies)
    /\ tx = db
    /\ tick = NoTick
    /\ clock = 4000
    /\ world = NoWorld
    /\ inv = NoInv
    /\ argAttacker = [units |-> <<>>]
    /\ argDefender = [units |-> <<>>]
    /\ calls = 0
    /\ battle = NoBattle
    /\ cpc = "idle"
    /\ callNo = 0
    /\ step = 0
    /\ firstRun = <<>>
    /\ result = NoResult

\* The wall clock moves, forwards or (when it is adjusted) backwards.
MoveClock ==
    /\ tick.pc = "idle"
    /\ clock' \in Times \ {clock}
    /\ UNCHANGED <<db, tx, tick, world, inv>>
    /\ UNCHANGED cvars

\* processPlayerTick(playerId) is entered: the transaction opens, now is
\* sampled, the resource row is loaded; the call returns at once when there
\* is no row or the debounce window has not passed, and otherwise loads the
\* rest and computes the accrual (steps 1 to 4).
Begin(playerId, caller) ==
    LET now == clock
        noRow == playerId \notin DOMAIN db.resources
        base == IF noRow THEN NoTime ELSE db.resources[playerId].lastTickAt
        skip == noRow \/ Debounced(now - base)
        again == inv.outcome # "none" /\ inv.player = playerId
        call == [player |-> playerId, now |-> now,
                 prev |-> IF again THEN inv.now ELSE NoTime,
                 prevOutcome |-> IF again THEN inv.outcome ELSE "none",
                 wrote |-> FALSE, outcome |-> "running"]
    IN  /\ tx' = db
        /\ db' = IF skip THEN Commit(db, tx') ELSE db
        /\ inv' = [call EXCEPT !.outcome = IF skip THEN "noop" ELSE "running"]
        /\ tick' = IF skip THEN NoTick
                   ELSE [pc |-> "buildings", player |-> playerId, now |-> now,
                         caller |-> caller, accrued |-> Accrue(tx', playerId, now),
                         settlements |-> SettlementsOf(tx', playerId),
                         armies |-> ArmiesOf(tx', playerId), stamps |-> 0]
        /\ world' = IF skip /\ caller = "world"
                    THEN OnTickReturn(world, playerId, "noop", now)
                    ELSE world
        /\ UNCHANGED clock
        /\ UNCHANGED cvars

\* A route or the scheduler calls processPlayerTick for one player.
CallPlayerTick ==
    /\ tick.pc = "idle"
    /\ world.pc # "loop"
    /\ \E p \in Players : Begin(p, "direct")

\* A step of the call in progress that leaves the transaction at `working`.
TickStep(from, to, working) ==
    /\ tick.pc = from
    /\ tx' = working
    /\ tick' = [tick EXCEPT !.pc = to]
    /\ UNCHANGED <<db, clock, world, inv>>
    /\ UNCHANGED cvars

StepBuildings ==
    TickStep("buildings", "research", CompleteBuildings(tx, tick.player, tick.now))

StepResearch ==
    TickStep("research", "training", CompleteResearch(tx, tick.player, tick.now))

StepTraining ==
    TickStep("training", "armies",
             CompleteTraining(tx, tick.player, tick.now, tick.settlements))

\* One turn of the loop over the armies loaded at the start of the tick.
StepArmy ==
    /\ tick.pc = "armies"
    /\ tick.armies # <<>>
    /\ LET army == Head(tick.armies)
           isScoutArrival == /\ ~NotArrived(army, tick.now)
                             /\ army.status # "RETURNING"
                             /\ army.scout
       IN  \E lost \in BOOLEAN :
               /\ isScoutArrival => \/ lost /\ ScoutCanBeLost(tx, army)
                                    \/ ~lost /\ ScoutCanSurvive(tx, army)
               /\ ~isScoutArrival => ~lost
               /\ tx' = ArmyArrival(tx, tick.player, army, tick.now, lost)
    /\ tick' = [tick EXCEPT !.armies = Tail(@)]
    /\ UNCHANGED <<db, clock, world, inv>>
    /\ UNCHANGED cvars

\* Step 9, after the last army.
StepWrite ==
    /\ tick.pc = "armies"
    /\ tick.armies = <<>>
    /\ tx' = WriteResources(tx, tick.player, tick.accrued, tick.now)
    /\ tick' = [tick EXCEPT !.pc = "commit", !.stamps = @ + 1]
    /\ UNCHANGED <<db, clock, world, inv>>
    /\ UNCHANGED cvars

\* The callback returns and the transaction commits.
TickCommit ==
    /\ tick.pc = "commit"
    /\ db' = Commit(db, tx)
    /\ tx' = db'
    /\ inv' = [inv EXCEPT !.outcome = "committed", !.wrote = tx # db]
    /\ tick' = NoTick
    /\ world' = IF tick.caller = "world"
                THEN OnTickReturn(world, tick.player, "committed", tick.now)
                ELSE world
    /\ UNCHANGED clock
    /\ UNCHANGED cvars

\* A statement of the call in progress throws (the database refuses a read or
\* a write, the transaction times out): the transaction rolls back and the
\* error reaches the caller.
TickFail ==
    /\ tick.pc # "idle"
    /\ db' = Rollback(db, tx)
    /\ tx' = db'
    /\ inv' = [inv EXCEPT !.outcome = "failed", !.wrote = tx # db]
    /\ tick' = NoTick
    /\ world' = IF tick.caller = "world"
                THEN OnTickError(world, tick.player, tick.now)
                ELSE world
    /\ UNCHANGED clock
    /\ UNCHANGED cvars

\* ---------------------------------------------------------------------
\* Army commands (app/api/game/army/route.ts)
\* ---------------------------------------------------------------------

\* Slowest unit determines army speed, in tenths of a tile per minute; 0.5
\* when no group has a positive speed.
SlowestSpeed(armyUnits) ==
    LET speeds == {UNIT_STATS[armyUnits[i].unitType].speed10 :
                       i \in {j \in DOMAIN armyUnits : HasStats(armyUnits[j].unitType)}}
        slowest == IF speeds = {} THEN 0
                   ELSE CHOOSE v \in speeds : \A w \in speeds : v <= w
    IN  IF slowest <= 0 THEN 5 ELSE slowest

\* distance / slowestSpeed * 60 * 1000 for a march over `distance10` tenths
\* of a tile
TravelTimeMs(distance10, armyUnits) == (distance10 * 60000) \div SlowestSpeed(armyUnits)

\* handleMarch: an IDLE army of the player is sent to a tile; the way is
\* measured from the tile the army was detached on, so a march to that tile
\* arrives at once.
March(armyId, toTileId, now) ==
    LET this(a) == a.id = armyId
        army == Find(db.armies, this)
        distance10 == IF toTileId = army.fromTileId THEN 0 ELSE MarchDistance10
        go(a) == [a EXCEPT !.status = "MARCHING", !.toTileId = toTileId,
                           !.departedAt = now,
                           !.arrivesAt = now + TravelTimeMs(distance10, a.armyUnits)]
    IN  /\ Exists(db.armies, this)
        /\ army.status = "IDLE"
        /\ toTileId \in DOMAIN db.tiles
        /\ db' = [db EXCEPT !.armies = UpdateWhere(@, this, go)]
        /\ tx' = db'
        /\ UNCHANGED <<tick, clock, world, inv>>
        /\ UNCHANGED cvars

\* A player sends one of the armies to a tile, between two ticks.
MarchCommand ==
    /\ tick.pc = "idle"
    /\ \E i \in DOMAIN db.armies, toTileId \in DOMAIN db.tiles :
           March(db.armies[i].id, toTileId, clock)

\* The orders in which prisma.player.findMany returns the players: the
\* query has no orderBy, so the rows come in storage order, here forwards
\* or backwards.
PlayerOrders == {<<"p1", "p2", "p3">>, <<"p3", "p2", "p1">>}

\* processWorldTick is entered and loads the players.
WorldTickStart ==
    /\ tick.pc = "idle"
    /\ world.pc # "loop"
    /\ \E order \in PlayerOrders :
           world' = [pc |-> "loop", queue |-> order, log |-> <<>>]
    /\ UNCHANGED <<db, tx, tick, clock, inv>>
    /\ UNCHANGED cvars

\* prisma.player.findMany throws: processWorldTick has no handler around it.
WorldTickLoadFails ==
    /\ tick.pc = "idle"
    /\ world.pc # "loop"
    /\ world' = [pc |-> "raised", queue |-> <<>>, log |-> <<>>]
    /\ UNCHANGED <<db, tx, tick, clock, inv>>
    /\ UNCHANGED cvars

\* The loop of processWorldTick calls processPlayerTick for the next player.
WorldTickNext ==
    /\ tick.pc = "idle"
    /\ world.pc = "loop"
    /\ world.queue # <<>>
    /\ Begin(Head(world.queue), "world")

\* The loop of processWorldTick has run out of players: the call returns.
WorldTickEnd ==
    /\ tick.pc = "idle"
    /\ world.pc = "loop"
    /\ world.queue = <<>>
    /\ world' = NoWorld
    /\ UNCHANGED <<db, tx, tick, clock, inv>>
    /\ UNCHANGED cvars

NextTick ==
    \/ MoveClock
    \/ CallPlayerTick
    \/ StepBuildings
    \/ StepResearch
    \/ StepTraining
    \/ StepArmy
    \/ StepWrite
    \/ TickCommit
    \/ TickFail
    \/ WorldTickStart
    \/ WorldTickLoadFails
    \/ WorldTickNext
    \/ WorldTickEnd

SpecTick == InitTick /\ [][NextTick]_vars

\* Ticks of single players and marching orders: the worlds start with an
\* army just detached from the garrison of s1, with no orders yet, next to
\* an army on its way home, or with an army of p2 about to attack s1.
IdleArmy == Army("i1", "p1", FALSE, "IDLE", "", NoTime, <<Group("CAVALRY", 2)>>)

\* An army of p2 on its way to the settlement of p1, as strong as the
\* garrison it will meet.
Raiders == Army("b2", "p2", FALSE, "MARCHING", "t1", 5000, <<Group("INFANTRY", 3)>>)

MarchTables ==
    {<<CHOOSE x \in ArmyTemplates : x.id = "a4", IdleArmy>>, <<Raiders>>}

\* The store of these worlds: p1 is down to one unit of provisions, its
\* FARM being under upgrade until 20000 and its SAWMILL, built, until 10000;
\* p2 has ordered a level for its WALLS, due at 5000 (the defense route sets
\* the timestamps of the record and leaves its level).  In the world of the
\* raid p1 researches a track it has a level of, in the other a new track.
LeanStore(armies) ==
    LET farm(b) == b.type = "FARM"
        sawmill(b) == b.type = "SAWMILL"
        upgrading(b) == [b EXCEPT !.upgradeStartedAt = 0, !.upgradeFinishAt = 20000]
        built(b) == [b EXCEPT !.isBuilt = TRUE, !.level = 1, !.upgradeFinishAt = 10000]
        walls(d) == d.type = "WALLS"
        raised(d) == [d EXCEPT !.upgradeStartedAt = 0, !.upgradeFinishAt = 5000]
        any(r) == TRUE
        known(r) == [r EXCEPT !.track = "CROP_MASTERY"]
    IN  [InitialStore(armies) EXCEPT !.resources["p1"].provisions = Units(1),
                                     !.buildings = UpdateWhere(UpdateWhere(@, farm, upgrading),
                                                               sawmill, built),
                                     !.defenses = UpdateWhere(@, walls, raised),
                                     !.activeResearch = IF Len(armies) = 1
                                                        THEN UpdateWhere(@, any, known)
                                                        ELSE @]

InitMarch ==
    /\ \E armies \in MarchTables : db = LeanStore(armies)
    /\ tx = db
    /\ tick = NoTick
    /\ clock = 4000
    /\ world = NoWorld
    /\ inv = NoInv
    /\ argAttacker = [units |-> <<>>]
    /\ argDefender = [units |-> <<>>]
    /\ calls = 0
    /\ battle = NoBattle
    /\ cpc = "idle"
    /\ callNo = 0
    /\ step = 0
    /\ firstRun = <<>>
    /\ result = NoResult

NextMarch ==
    \/ MoveClock
    \/ CallPlayerTick
    \/ StepBuildings
    \/ StepResearch
    \/ StepTraining
    \/ StepArmy
    \/ StepWrite
    \/ TickCommit
    \/ TickFail
    \/ MarchCommand

SpecMarch == InitMarch /\ [][NextMarch]_vars

\* ---------------------------------------------------------------------
\* Ticks of single players over worlds of arrivals
\* ---------------------------------------------------------------------

\* A second army of p1 on its way home, due with the first.
SecondHome ==
    Army("r1", "p1", FALSE, "RETURNING", "t1", 5000,
         <<Group("INFANTRY", 1), Group("CAVALRY", 1)>>)

\* Two raids of p1 on the NPC camp, due together: the first too weak for
\* the camp, the second strong enough to lose its caravan and win.
WeakRaid ==
    Army("n2", "p1", FALSE, "MARCHING", "t3", 5000,
         <<Group("INFANTRY", 4), Group("CARAVAN", 1)>>)

StrongRaid ==
    Army("n1", "p1", FALSE, "MARCHING", "t3", 5000,
         <<Group("CAVALRY", 8), Group("CARAVAN", 1)>>)

\* The attacks on the settlement of p2: three armies of p1, two of them due
\* together and one later, and an army of p3 that brings no caravan.
Siege ==
    Army("v1", "p1", FALSE, "MARCHING", "t2", 5000,
         <<Group("CAVALRY", 8), Group("CARAVAN", 1)>>)

SiegeFollowers ==
    Army("v2", "p1", FALSE, "MARCHING", "t2", 5000, <<Group("INFANTRY", 2)>>)

SiegeRearguard ==
    Army("v3", "p1", FALSE, "MARCHING", "t2", 10000, <<Group("INFANTRY", 2)>>)

Opportunists ==
    [Army("o1", "p3", FALSE, "MARCHING", "t2", 5000, <<Group("CAVALRY", 8)>>)
         EXCEPT !.fromTileId = "t4"]

\* An army of p1 with caravans for all it can take from p2
Convoy ==
    Army("v4", "p1", FALSE, "MARCHING", "t2", 5000,
         <<Group("CAVALRY", 8), Group("CARAVAN", 2)>>)

\* The army tables of these worlds: two armies of p1 come home together; two
\* armies of p1 raid the NPC camp; the settlement of p2 is attacked by three
\* armies of p1 and one of p3; it is attacked by one army of p1 while a
\* protection window is running out; an archer of p2 attacks the settlement
\* of p1.
ArrivalTables ==
    {<<CHOOSE x \in ArmyTemplates : x.id = "a4", SecondHome>>,
     <<WeakRaid, StrongRaid>>,
     <<Siege, SiegeFollowers, SiegeRearguard, Opportunists>>,
     <<Convoy>>,
     <<CHOOSE x \in ArmyTemplates : x.id = "b1">>}

\* The store of these worlds: p3 has a resource row and a settlement on t4;
\* p2 is rich, keeps an archer next to its warden, is raising its WALLS and
\* has a GUARD_TOWER under construction (the defense route creates the
\* record at level 0 with the timestamps of the build); in the world of the
\* convoy its settlement is protected until 9000.  p3 has a MINE whose
\* upgrade ends at 10000.
ArrivalStore(armies) ==
    LET base == InitialStore(armies)
        rich == [Row(1000, 600, 400, 10, 250) EXCEPT
                    !.oreCap = Units(2000), !.provisionsCap = Units(2000),
                    !.goldCap = Units(2000), !.lumberCap = Units(2000)]
        walls(d) == d.type = "WALLS"
        raised(d) == [d EXCEPT !.upgradeStartedAt = 0, !.upgradeFinishAt = 20000]
        second(x) == x.id = "s2"
        shielded(x) == [x EXCEPT !.protectedUntil = 9000]
    IN  [base EXCEPT
            !.resources = [p \in Players |->
                              IF p = "p3" THEN Row(10, 10, 10, 10, 0)
                              ELSE IF p = "p2" THEN rich
                              ELSE base.resources[p]],
            !.settlements = Append(IF armies[1].id = "v4"
                                   THEN UpdateWhere(@, second, shielded)
                                   ELSE @,
                                   [id |-> "s3", playerId |-> "p3", tileId |-> "t4",
                                    protectedUntil |-> NoTime]),
            !.tiles["t4"] = [@ EXCEPT !.hasSettlement = TRUE, !.ownerId = "p3"],
            !.settlementUnits = @ \o <<[settlementId |-> "s2", unitType |-> "ARCHER",
                                        quantity |-> 1],
                                       [settlementId |-> "s3", unitType |-> "INFANTRY",
                                        quantity |-> 1]>>,
            !.buildings = Append(@, [id |-> "b5", settlementId |-> "s3", type |-> "MINE",
                                     level |-> 1, isBuilt |-> TRUE,
                                     upgradeStartedAt |-> 0, upgradeFinishAt |-> 10000]),
            !.defenses = Append(UpdateWhere(@, walls, raised),
                                [id |-> "d2", settlementId |-> "s2",
                                 type |-> "GUARD_TOWER", level |-> 0,
                                 upgradeStartedAt |-> 0, upgradeFinishAt |-> 20000])]

InitArrivals ==
    /\ \E armies \in ArrivalTables : db = ArrivalStore(armies)
    /\ tx = db
    /\ tick = NoTick
    /\ clock = 4000
    /\ world = NoWorld
    /\ inv = NoInv
    /\ argAttacker = [units |-> <<>>]
    /\ argDefender = [units |-> <<>>]
    /\ calls = 0
    /\ battle = NoBattle
    /\ cpc = "idle"
    /\ callNo = 0
    /\ step = 0
    /\ firstRun = <<>>
    /\ result = NoResult

NextArrivals ==
    \/ MoveClock
    \/ CallPlayerTick
    \/ StepBuildings
    \/ StepResearch
    \/ StepTraining
    \/ StepArmy
    \/ StepWrite
    \/ TickCommit
    \/ TickFail

SpecArrivals == InitArrivals /\ [][NextArrivals]_vars

\* ---------------------------------------------------------------------
\* Properties of resolveCombat
\* ---------------------------------------------------------------------

\* A call is in progress or has returned.
InCall == cpc \in {"ranged", "melee", "winner", "done"}

\* Every tracker of `units` accounts for the units of its group in `initial`.
Conserved(units, initial) ==
    /\ Len(units) = Len(initial)
    /\ \A i \in DOMAIN units :
           /\ units[i].unitType = initial[i].unitType
           /\ units[i].quantity >= 0
           /\ units[i].lost >= 0
           /\ units[i].quantity + units[i].lost = initial[i].quantity

\* C1: after every ranged and melee sub-phase of every round, and at return,
\* every unit tracker of both sides has quantity >= 0, lost >= 0 and
\* quantity + lost equal to the quantity the tracker started with.
C1_Conservation ==
    InCall =>
        /\ Conserved(battle.atkUnits, Trackers(argAttacker.units))
        /\ Conserved(battle.defUnits, Trackers(argDefender.units))

\* A battle of two rounds or more has returned, with a group of each side
\* partly lost.
C1_Witness ==
    /\ cpc = "done"
    /\ battle.round >= 2
    /\ \E i \in DOMAIN battle.atkUnits :
           battle.atkUnits[i].lost > 0 /\ battle.atkUnits[i].quantity > 0
    /\ \E i \in DOMAIN battle.defUnits :
           battle.defUnits[i].lost > 0 /\ battle.defUnits[i].quantity > 0

C3_LoopBound ==
    InCall =>
        /\ battle.round \in 0..MAX_ROUNDS
        /\ step <= 2 * MAX_ROUNDS + 2
        /\ cpc = "ranged" =>
               /\ battle.round < MAX_ROUNDS
               /\ AnyAlive(battle.atkUnits) /\ AnyAlive(battle.defUnits)
               /\ battle.round >= 1 =>
                      sumLost(battle.atkUnits) + sumLost(battle.defUnits)
                          > battle.totalLostBefore
        /\ cpc = "melee" => AnyAlive(battle.atkUnits) /\ AnyAlive(battle.defUnits)
        /\ cpc \in {"winner", "done"} =>
               \/ battle.round = MAX_ROUNDS
               \/ ~AnyAlive(battle.atkUnits)
               \/ ~AnyAlive(battle.defUnits)
               \/ NoKillsThisRound(battle)

\* The loop ran into the round cap with survivors on both sides.
C3_Witness ==
    /\ cpc = "done"
    /\ battle.round = MAX_ROUNDS
    /\ AnyAlive(battle.atkUnits) /\ AnyAlive(battle.defUnits)

\* C4: in the states of one battle wallHpRemaining is WALL_HP_PER_LEVEL times
\* the wall level when the loop is entered, is never negative, and no step of
\* the battle raises it.
C4_WallMonotone ==
    /\ [](InCall =>
            /\ battle.wallHpRemaining >= 0
            /\ battle.wallHpRemaining <= 100 * WALL_HP_PER_LEVEL * WallLevelOf(argDefender)
            /\ step = 1 =>
                   battle.wallHpRemaining = 100 * WALL_HP_PER_LEVEL * WallLevelOf(argDefender))
    /\ [][(InCall /\ callNo' = callNo) =>
              battle'.wallHpRemaining <= battle.wallHpRemaining]_vars

\* After a round or more the wall is damaged and still standing.
C4_Witness ==
    /\ InCall
    /\ battle.round >= 1
    /\ battle.wallHpRemaining > 0
    /\ battle.wallHpRemaining < 100 * WALL_HP_PER_LEVEL * WallLevelOf(argDefender)

\* C5: the three loot fields of a result add up to at most
\* min(20% of defender.provisions, carry capacity of the attacker), and all
\* three are 0 when the attacker lost or has no CARAVAN group of quantity > 0.
C5_LootBound ==
    cpc = "done" =>
        /\ result.loot.ore >= 0 /\ result.loot.provisions >= 0 /\ result.loot.gold >= 0
        /\ 5 * (result.loot.ore + result.loot.provisions + result.loot.gold)
               <= Min(argDefender.provisions, 5 * getCarryCapacity(argAttacker.units))
        /\ (~result.attackerWins \/ ~hasCaravans(argAttacker.units)) =>
               result.loot = [ore |-> 0, provisions |-> 0, gold |-> 0]

\* A winner with CARAVANs carries off 80 ore, 80 provisions and 40 gold: the
\* pool of 400 out of 2000 provisions is cut to the capacity of 200.
C5_Witness ==
    /\ cpc = "done"
    /\ result.attackerWins
    /\ argDefender.provisions = 2000
    /\ getCarryCapacity(argAttacker.units) = 200
    /\ result.loot = [ore |-> 80, provisions |-> 80, gold |-> 40]

\* C10: attackerWins is false whenever no attacker unit survives the loop, a
\* wipe of both sides in the same sub-phase included, and true whenever no
\* defender unit survives while an attacker unit does.  Stated for the
\* battles both sides entered with units.
C10_WinnerOnWipe ==
    (cpc = "done" /\ AnyAlive(argAttacker.units) /\ AnyAlive(argDefender.units)) =>
        /\ ~AnyAlive(battle.atkUnits) => ~result.attackerWins
        /\ (~AnyAlive(battle.defUnits) /\ AnyAlive(battle.atkUnits)) => result.attackerWins

\* The attack of every surviving unit of a side, ranged and melee alike.
RemainingPower(units) ==
    LET power(u) == UNIT_STATS[u.unitType].attack * u.quantity
    IN  SumOver(power, SelectSeq(units, LAMBDA u : u.quantity > 0 /\ HasStats(u.unitType)))

BothSurvived == AnyAlive(battle.atkUnits) /\ AnyAlive(battle.defUnits)

\* C11: when both sides have survivors at the exit of the loop, attackerWins
\* is true exactly when the attack x quantity of the attacker's survivors,
\* over all unit types, is strictly greater than that of the defender's;
\* with equal power the defender wins.
C11_PowerComparison ==
    (cpc = "done" /\ BothSurvived) =>
        (result.attackerWins <=>
            RemainingPower(battle.atkUnits) > RemainingPower(battle.defUnits))

\* A battle ended with survivors of equal, positive power on both sides, and
\* the defender won it.
C11_Witness ==
    /\ cpc = "done"
    /\ BothSurvived
    /\ RemainingPower(battle.atkUnits) = RemainingPower(battle.defUnits)
    /\ RemainingPower(battle.atkUnits) > 0
    /\ ~result.attackerWins

\* The attack x quantity of the live groups of the given types
RawOf(units, types) ==
    LET raw(u) == UNIT_STATS[u.unitType].attack * u.quantity
    IN  SumOver(raw, SelectSeq(units, LAMBDA u : u.unitType \in types /\ u.quantity > 0
                                                  /\ HasStats(u.unitType)))

\* The melee damage of the attacker's live melee groups, with the charge of
\* the CAVALRY in round 0; in hundredths.
AttackerMeleeOf(units, round) ==
    LET raw(u) == UNIT_STATS[u.unitType].attack * u.quantity
                  * (IF round = 0 /\ u.unitType = "CAVALRY"
                     THEN CAVALRY_CHARGE_MULTIPLIER ELSE 100)
    IN  SumOver(raw, LiveOfTypes(units, MELEE_TYPES))

\* C18: both sub-phases of a round are simultaneous.  The ranged volley
\* leaves each side as the other side's ranged damage, taken from the
\* quantities alive at the start of the round, leaves it; the melee leaves
\* each side as the other side's melee damage and triangle weighting, taken
\* from the quantities alive after the ranged volley, leave it.
C18_Simultaneous ==
    [][/\ (cpc = "ranged" /\ step' = step + 1) =>
              /\ battle'.defUnits =
                     IF RawOf(battle.atkUnits, RANGED_TYPES) > 0
                     THEN applyRangedProportional(RawOf(battle.atkUnits, RANGED_TYPES),
                                                  battle.defUnits)
                     ELSE battle.defUnits
              /\ battle'.atkUnits =
                     IF RawOf(battle.defUnits, RANGED_TYPES) + battle.guardTowerDmg > 0
                     THEN applyRangedSpeedOrder(RawOf(battle.defUnits, RANGED_TYPES)
                                                    + battle.guardTowerDmg,
                                                battle.atkUnits)
                     ELSE battle.atkUnits
       /\ (cpc = "melee" /\ step' = step + 1) =>
              LET overWall == AttackerMeleeOf(battle.atkUnits, battle.round)
                              - Min(AttackerMeleeOf(battle.atkUnits, battle.round),
                                    battle.wallHpRemaining)
                  defRaw == RawOf(battle.defUnits, MELEE_TYPES) * battle.manaMultiplier
              IN  /\ battle'.defUnits =
                         IF overWall > 0
                         THEN applyMeleeProportional(
                                  overWall, LiveOfTypes(battle.atkUnits, MELEE_TYPES),
                                  battle.defUnits)
                         ELSE battle.defUnits
                  /\ battle'.atkUnits =
                         IF defRaw > 0
                         THEN applyMeleeProportional(
                                  defRaw, LiveOfTypes(battle.defUnits, MELEE_TYPES),
                                  battle.atkUnits)
                         ELSE battle.atkUnits]_vars

\* A battle of one round, without a guard tower, has returned: in its volley
\* the arrows of either side killed units of the other, defending ARCHERs
\* among them, and in its melee the attacker's units killed defenders while
\* the last of them were killed.
C18_Witness ==
    /\ cpc = "done"
    /\ step = 4
    /\ battle.guardTowerDmg = 0
    /\ MapGet(battle.totalRangedDefLost, "ARCHER") > 0
    /\ result.phases.ranged.attackerCasualties # <<>>
    /\ result.phases.melee.attackerCasualties # <<>>
    /\ result.phases.melee.defenderCasualties # <<>>
    /\ ~AnyAlive(battle.atkUnits)

\* The attacker groups that lost units to the volley of this step
HitByVolley == {i \in DOMAIN battle.atkUnits : battle'.atkUnits[i].lost > battle.atkUnits[i].lost}

\* Every group of `slower` that is slower than a group hit by the volley was
\* wiped by it, and the volley left at most one of the groups it hit alive.
ConsumedInSpeedOrder(slower) ==
    /\ \A i \in HitByVolley :
           \A j \in slower :
               SpeedOf(battle.atkUnits[j].unitType) < SpeedOf(battle.atkUnits[i].unitType)
                   => battle'.atkUnits[j].quantity = 0
    /\ Cardinality({i \in HitByVolley : battle'.atkUnits[i].quantity > 0}) <= 1

\* C19 as claimed: an attacker group loses units to the defender's volley
\* only if every live attacker group of strictly lower speed was wiped by
\* the same volley, and at most one group is partially killed per volley.
C19_SpeedOrderClaimed ==
    [][(cpc = "ranged" /\ step' = step + 1) =>
          ConsumedInSpeedOrder({j \in DOMAIN battle.atkUnits :
                                    battle.atkUnits[j].quantity > 0})]_vars

\* C19: an attacker group loses units to the defender's volley only if every
\* live attacker group of a known unit type and of strictly lower speed was
\* wiped by the same volley, and at most one group is partially killed per
\* volley; groups of a type without stats are passed over.
C19_SpeedOrder ==
    [][(cpc = "ranged" /\ step' = step + 1) =>
          /\ ConsumedInSpeedOrder({j \in DOMAIN battle.atkUnits :
                                       /\ battle.atkUnits[j].quantity > 0
                                       /\ HasStats(battle.atkUnits[j].unitType)})
          /\ \A i \in HitByVolley : HasStats(battle.atkUnits[i].unitType)]_vars

\* The volley of round 0 has wiped the attacker's slower group, which stands
\* later in the array, and killed a part of the faster one.
C19_Witness ==
    /\ cpc \in {"melee", "winner"}
    /\ step = 2
    /\ \E i, j \in DOMAIN battle.atkUnits :
           /\ i < j
           /\ HasStats(battle.atkUnits[i].unitType)
           /\ HasStats(battle.atkUnits[j].unitType)
           /\ SpeedOf(battle.atkUnits[j].unitType) < SpeedOf(battle.atkUnits[i].unitType)
           /\ battle.atkUnits[j].quantity = 0
           /\ battle.atkUnits[j].lost > 0
           /\ battle.atkUnits[i].quantity > 0
           /\ battle.atkUnits[i].lost > 0

\* The melee casualties of both sides as the result would report them.
MeleeCasualties(b) ==
    <<MeleeLossesOf(b.atkUnits, b.totalRangedAtkLost),
      MeleeLossesOf(b.defUnits, b.totalRangedDefLost)>>

\* The loop was left by the break after the ranged volley.
LeftAfterRanged == cpc = "winner" /\ step % 2 = 0

\* C20: when the ranged volley of a round leaves a side without survivors,
\* the loop exits to winner determination without a melee: the volley adds no
\* melee casualties and leaves wallHpRemaining and totalWallDamageAbsorbed as
\* they were, and the result reports the melee casualties and the wall damage
\* as they stood before that round.
C20_NoMeleeAfterWipe ==
    [][/\ (/\ cpc = "ranged"
           /\ step' = step + 1
           /\ (~AnyAlive(battle'.atkUnits) \/ ~AnyAlive(battle'.defUnits)))
          => /\ cpc' = "winner"
             /\ MeleeCasualties(battle') = MeleeCasualties(battle)
             /\ battle'.wallHpRemaining = battle.wallHpRemaining
             /\ battle'.totalWallDamageAbsorbed = battle.totalWallDamageAbsorbed
       /\ (LeftAfterRanged /\ step' = step + 1)
          => /\ cpc' = "done"
             /\ battle'.round = battle.round
             /\ <<result'.phases.melee.attackerCasualties,
                  result'.phases.melee.defenderCasualties>> = MeleeCasualties(battle)
             /\ result'.phases.melee.wallDamageAbsorbed = battle.totalWallDamageAbsorbed]_vars

\* A battle whose second volley wiped a side, after a first round whose melee
\* killed units and was partly taken by the wall.
C20_Witness ==
    /\ cpc = "done"
    /\ step = 5
    /\ battle.round = 1
    /\ ~AnyAlive(battle.atkUnits) \/ ~AnyAlive(battle.defUnits)
    /\ MeleeCasualties(battle) # <<<<>>, <<>>>>
    /\ battle.totalWallDamageAbsorbed > 0

\* quantity x attack of a group; in hundredths.
PlainRaw(u) == UNIT_STATS[u.unitType].attack * u.quantity * 100

\* quantity x attack x CAVALRY_CHARGE_MULTIPLIER of a group; in hundredths.
ChargedRaw(u) == UNIT_STATS[u.unitType].attack * u.quantity * CAVALRY_CHARGE_MULTIPLIER

\* The attacker's melee raw damage as claimed: the CAVALRY groups charge in
\* round 0, every other group and every later round counts quantity x attack.
ClaimedAtkMeleeRaw(units, round) ==
    LET groups == LiveOfTypes(units, MELEE_TYPES)
    IN  SumOver(PlainRaw, SelectSeq(groups, LAMBDA u : ~(round = 0 /\ u.unitType = "CAVALRY")))
        + SumOver(ChargedRaw, SelectSeq(groups, LAMBDA u : round = 0 /\ u.unitType = "CAVALRY"))

\* C21: the attacker's melee raw damage counts a CAVALRY group as quantity x
\* attack x CAVALRY_CHARGE_MULTIPLIER in round 0 only and every other group,
\* and the CAVALRY from round 1 on, as quantity x attack: the wall takes that
\* damage up to what is left of it and the defender's groups the rest.  The
\* defender's melee damage is quantity x attack in every round, its CAVALRY
\* included.
C21_ChargeInRoundZeroOnly ==
    [][(cpc = "melee" /\ step' = step + 1) =>
          LET raw == ClaimedAtkMeleeRaw(battle.atkUnits, battle.round)
              absorbed == Min(raw, battle.wallHpRemaining)
              defRaw == SumOver(PlainRaw, LiveOfTypes(battle.defUnits, MELEE_TYPES))
                        * battle.manaMultiplier
          IN  /\ battle'.totalWallDamageAbsorbed = battle.totalWallDamageAbsorbed + absorbed
              /\ battle'.defUnits =
                     IF raw > absorbed
                     THEN applyMeleeProportional(raw - absorbed,
                              LiveOfTypes(battle.atkUnits, MELEE_TYPES), battle.defUnits)
                     ELSE battle.defUnits
              /\ battle'.atkUnits =
                     IF defRaw > 0
                     THEN applyMeleeProportional(defRaw \div 100,
                              LiveOfTypes(battle.defUnits, MELEE_TYPES), battle.atkUnits)
                     ELSE battle.atkUnits]_vars

\* Two rounds of melee fought by the attacker's CAVALRY against a wall that
\* is still standing and a defender that has CAVALRY of its own.
C21_Witness ==
    /\ step = 5
    /\ cpc \in {"ranged", "winner"}
    /\ battle.wallHpRemaining > 0
    /\ battle.totalWallDamageAbsorbed > 0
    /\ \E i \in DOMAIN battle.atkUnits :
           battle.atkUnits[i].unitType = "CAVALRY" /\ battle.atkUnits[i].quantity > 0
    /\ \E i \in DOMAIN battle.defUnits :
           battle.defUnits[i].unitType = "CAVALRY" /\ battle.defUnits[i].quantity > 0

\* The factor as claimed, in percent: 100 + k for the largest k <= 25 with
\* 100 k <= manaReserve, and 100 for a defender that is not defending or has
\* no mana reserve.
ClaimedManaFactor(defender) ==
    IF defender.isDefending /\ defender.manaReserve > 0
    THEN 100 + CHOOSE k \in 0..25 :
                   /\ 100 * k <= defender.manaReserve
                   /\ k < 25 => defender.manaReserve < 100 * (k + 1)
    ELSE 100

\* C22: the defender's melee raw damage is scaled in every round by the same
\* factor 1 + min(floor(manaReserve / 100), 25) / 100, which is 1 for a
\* defender that is not defending or has no mana reserve, and the battle
\* leaves the mana reserve as it was.
C22_ManaFactor ==
    [][/\ (cpc = "melee" /\ step' = step + 1) =>
              LET defMelee == LiveOfTypes(battle.defUnits, MELEE_TYPES)
                  defRaw == SumOver(GroupRaw, defMelee) * ClaimedManaFactor(argDefender)
              IN  /\ battle'.atkUnits =
                         IF defRaw > 0
                         THEN applyMeleeProportional(defRaw, defMelee, battle.atkUnits)
                         ELSE battle.atkUnits
       /\ cpc # "idle" => /\ battle.manaMultiplier = ClaimedManaFactor(argDefender)
                          /\ battle.manaMultiplier <= 125
       /\ argDefender'.manaReserve = argDefender.manaReserve]_vars

\* A garrison with a mana reserve above the cap has fought two rounds of
\* melee and killed attackers in it.
C22_Witness ==
    /\ cpc = "done"
    /\ battle.round >= 2
    /\ argDefender.manaReserve > 2500
    /\ battle.manaMultiplier = 125
    /\ result.phases.melee.attackerCasualties # <<>>

\* WALL_HP_PER_LEVEL x wall level of the defender; in hundredths.
InitialWallHp == 100 * WALL_HP_PER_LEVEL * WallLevelOf(argDefender)

\* C23: in every melee round the damage taken by the wall plus the overflow
\* applied to the defender's groups is the attacker's melee raw damage, a raw
\* damage of at most the remaining wall HP costs the defender no unit in that
\* round, and totalWallDamageAbsorbed + wallHpRemaining is the initial wall HP
\* at every point of the battle.
C23_WallAbsorption ==
    [][/\ (cpc = "melee" /\ step' = step + 1) =>
              LET raw == ClaimedAtkMeleeRaw(battle.atkUnits, battle.round)
                  absorbed == battle.wallHpRemaining - battle'.wallHpRemaining
              IN  /\ absorbed \in 0..raw
                  /\ battle'.defUnits =
                         IF raw - absorbed > 0
                         THEN applyMeleeProportional(raw - absorbed,
                                  LiveOfTypes(battle.atkUnits, MELEE_TYPES), battle.defUnits)
                         ELSE battle.defUnits
                  /\ raw <= battle.wallHpRemaining => battle'.defUnits = battle.defUnits
       /\ cpc' # "idle" =>
              battle'.totalWallDamageAbsorbed + battle'.wallHpRemaining = InitialWallHp]_vars

\* A wall that held for more than one round of melee before the overflow
\* killed defenders behind it.
C23_Witness ==
    /\ cpc = "done"
    /\ battle.round >= 2
    /\ InitialWallHp > 0
    /\ battle.wallHpRemaining = 0
    /\ battle.totalWallDamageAbsorbed = InitialWallHp
    /\ result.phases.melee.defenderCasualties # <<>>
    /\ result.phases.ranged.defenderCasualties = <<>>
    /\ argAttacker.units[1].quantity <= MaxQty

\* The casualties a loss array lists for a unit type
ListedFor(losses, t) ==
    LET of(e) == IF e.unitType = t THEN e.lost ELSE 0
    IN  SumOver(of, losses)

\* Ranged and melee casualties of a side add up to its losses, type by type,
\* and every entry listed is positive.
BreakdownAddsUp(ranged, melee, losses) ==
    /\ \A t \in AllUnitTypes : ListedFor(ranged, t) + ListedFor(melee, t) = ListedFor(losses, t)
    /\ \A i \in DOMAIN ranged : ranged[i].lost > 0
    /\ \A i \in DOMAIN melee : melee[i].lost > 0

RECURSIVE RunToTheEnd(_)
\* The round step run until a side is wiped or MAX_ROUNDS rounds are done,
\* whether a round kills anybody or not.
RunToTheEnd(b) ==
    IF ~LoopContinues(b) THEN b
    ELSE LET r == RangedVolley(b)
         IN  IF WipedAfterRanged(r) THEN r
             ELSE RunToTheEnd([Melee(r) EXCEPT !.round = r.round + 1])

\* C25: stopping after a round without casualties only saves computation:
\* the casualties and the winner returned are those of the round step run
\* until a side is wiped or MAX_ROUNDS rounds are done.
C25_BreakOnlySavesWork ==
    cpc = "done" =>
        LET full == CombatResult(argAttacker, argDefender,
                                 RunToTheEnd(NewBattle(argAttacker, argDefender)))
        IN  /\ result.attackerWins = full.attackerWins
            /\ result.attackerLosses = full.attackerLosses
            /\ result.defenderLosses = full.defenderLosses

\* The groups of a side whose type is in the unit stat table
KnownGroups(units) == SelectSeq(units, LAMBDA u : HasStats(u.unitType))

\* The battle without the groups of unknown type
AmongKnown(b) == [b EXCEPT !.atkUnits = KnownGroups(@), !.defUnits = KnownGroups(@)]

\* The groups of unknown type are as they were before the step
UnknownUntouched(before, after) ==
    \A i \in DOMAIN before : ~HasStats(before[i].unitType) => after[i] = before[i]

\* C26: a group of a type without stats deals no damage, loses no unit and
\* does not enter the HP pools that share out the damage: every sub-phase
\* leaves the known groups as it would leave them were the unknown groups
\* absent.  Its quantity counts for the survivor check after the volley.
C26_UnknownTypesStandAside ==
    [][/\ (cpc = "ranged" /\ step' = step + 1) =>
              /\ KnownGroups(battle'.atkUnits) = RangedVolley(AmongKnown(battle)).atkUnits
              /\ KnownGroups(battle'.defUnits) = RangedVolley(AmongKnown(battle)).defUnits
              /\ (AnyAlive(battle'.atkUnits) /\ AnyAlive(battle'.defUnits)) => cpc' = "melee"
       /\ (cpc = "melee" /\ step' = step + 1) =>
              /\ KnownGroups(battle'.atkUnits) = Melee(AmongKnown(battle)).atkUnits
              /\ KnownGroups(battle'.defUnits) = Melee(AmongKnown(battle)).defUnits
       /\ (cpc \in {"ranged", "melee"} /\ step' = step + 1) =>
              /\ UnknownUntouched(battle.atkUnits, battle'.atkUnits)
              /\ UnknownUntouched(battle.defUnits, battle'.defUnits)]_vars

\* r is x rounded to the nearest integer, halves up, for x = twice / 2
RoundsTo(r, twice) == 2 * r - 1 <= twice /\ twice < 2 * r + 1

\* 2 m: 3 for hideouts and 2 otherwise
TwiceMult(isHideout) == IF isHideout THEN 3 ELSE 2

\* The army is the one claimed for strength s and the isHideout flag
ClaimedNpcArmy(army, s, isHideout) ==
    /\ Len(army.units) = IF s >= 5 THEN 3 ELSE 2
    /\ army.units[1].unitType = "INFANTRY"
    /\ RoundsTo(army.units[1].quantity, 5 * s * TwiceMult(isHideout))
    /\ army.units[2].unitType = "ARCHER"
    /\ RoundsTo(army.units[2].quantity, 2 * s * TwiceMult(isHideout))
    /\ s >= 5 => /\ army.units[3].unitType = "HEAVY_INFANTRY"
                 /\ RoundsTo(army.units[3].quantity, s * TwiceMult(isHideout))
    /\ army.defenseStructures =
           IF isHideout THEN <<[type |-> "WALLS", level |-> IF s < 3 THEN s ELSE 3]>>
           ELSE <<>>
    /\ 2 * army.provisions = s * 200 * TwiceMult(isHideout)
    /\ army.isDefending

\* C27: for every strength s and isHideout flag the defenders generated are
\* INFANTRY round(5 s m) and ARCHER round(2 s m) with m = 1.5 for hideouts
\* and 1 otherwise, HEAVY_INFANTRY round(s m) iff s >= 5, one WALLS structure
\* of level min(s, 3) iff isHideout, provisions s x 200 x m and isDefending
\* true; the army a battle is fought against is the one generated for its
\* strength and flag, whenever it is generated.
C27_NpcDefenders ==
    \A s \in 1..MaxStrength, h \in BOOLEAN :
        /\ argDefender = generateNPCDefenders(s, h) => ClaimedNpcArmy(argDefender, s, h)
        /\ ClaimedNpcArmy(argDefender, s, h) => argDefender = generateNPCDefenders(s, h)

\* A battle against the defenders of a hideout of strength 5, whose INFANTRY
\* and HEAVY_INFANTRY counts are rounded up from a half.
C27_Witness ==
    /\ cpc = "done"
    /\ argDefender.units = <<[unitType |-> "INFANTRY", quantity |-> 38],
                             [unitType |-> "ARCHER", quantity |-> 15],
                             [unitType |-> "HEAVY_INFANTRY", quantity |-> 8]>>
    /\ argDefender.defenseStructures = <<[type |-> "WALLS", level |-> 3]>>
    /\ argDefender.provisions = 1500

\* ---------------------------------------------------------------------
\* Properties of processPlayerTick and processWorldTick
\* ---------------------------------------------------------------------

\* The latest call came less than DEBOUNCE_MS after the call before it, made
\* for the same player.
SoonAfterPrevious ==
    /\ inv.outcome # "none"
    /\ inv.prevOutcome # "none"
    /\ inv.now - inv.prev < DEBOUNCE_MS

\* A call that returns at once leaves the store as it found it.
NoopLeavesStore == [][(tick.pc = "idle" /\ inv'.outcome = "noop") => db' = db]_vars

\* C6 as stated: a call made for a player less than DEBOUNCE_MS after the
\* timestamp of the call before it changes nothing, whatever the earlier
\* call did.
C6_DebounceAfterAnyCall == SoonAfterPrevious => ~(inv.outcome = "committed" /\ inv.wrote)

\* C6, amended: a call made for a player less than DEBOUNCE_MS after the
\* timestamp of an earlier call that committed its tick is a no-op: it
\* returns at once and the store is as the earlier call left it.
C6_DebounceAfterCommit ==
    /\ [](SoonAfterPrevious /\ inv.prevOutcome = "committed" => inv.outcome = "noop")
    /\ NoopLeavesStore

\* A tick committed at one moment and the next call for the player, made
\* later but within the window, returned at once.
C6_Witness ==
    /\ SoonAfterPrevious
    /\ inv.prevOutcome = "committed"
    /\ inv.prev < inv.now
    /\ inv.outcome = "noop"

\* C7: a player tick is all-or-nothing. From the moment the call has started
\* every step but the commit, the failure of a step included, leaves the
\* persisted store as it was before the call.
C7_AllOrNothing ==
    [][(tick.pc # "idle" /\ ~(tick.pc = "commit" /\ inv'.outcome = "committed"))
          => db' = db]_vars

\* A tick failed after it had issued writes, and the persisted store still
\* carries the old timestamp of the player.
C7_Witness ==
    /\ inv.outcome = "failed"
    /\ inv.wrote
    /\ inv.now - db.resources[inv.player].lastTickAt >= DEBOUNCE_MS

\* The loop of processWorldTick has gone through its players.
BatchOver == world.pc = "loop" /\ world.queue = <<>> /\ tick.pc = "idle"

\* Every player was attempted once, in the order loaded, and what the ticks
\* that committed wrote is in the store at the end of the batch.
OncePerPlayer ==
    /\ world.pc = "loop" =>
           [i \in 1..Len(world.log) |-> world.log[i].player] \o world.queue \in PlayerOrders
    /\ BatchOver =>
           \A i \in DOMAIN world.log :
               world.log[i].outcome = "committed" =>
                   db.resources[world.log[i].player].lastTickAt = world.log[i].now

\* C8 as stated: processWorldTick attempts every player once, one after
\* another, and always completes without raising.
C8_NeverRaises == OncePerPlayer /\ world.pc # "raised"

\* C8, amended: once the player list is loaded, processWorldTick attempts
\* every player once, one after another, and completes without raising:
\* whichever ticks fail, the others are executed and their effects stay
\* committed. It raises only when the player list cannot be loaded.
C8_IsolatedFailures == OncePerPlayer /\ (world.pc = "raised" => world.log = <<>>)

\* A batch is over in which one tick failed and a later one committed.
C8_Witness ==
    /\ BatchOver
    /\ \E i, j \in DOMAIN world.log :
           /\ i < j
           /\ world.log[i].outcome = "failed"
           /\ world.log[j].outcome = "committed"

\* C9: lastTickAt of a player never decreases; it changes only when a tick
\* of that player commits, which sets it once, to the `now` the tick
\* sampled; no-op and failed ticks leave it alone.
C9_LastTickAt ==
    [][\A p \in DOMAIN db.resources :
          LET old == db.resources[p].lastTickAt
              new == db'.resources[p].lastTickAt
              commits == tick.pc = "commit" /\ inv'.outcome = "committed" /\ tick.player = p
          IN  /\ new >= old
              /\ new # old => commits
              /\ commits => new = tick.now /\ new > old /\ tick.stamps = 1]_vars

\* A second tick of a player committed and moved the timestamp on from the
\* one the first tick had set.
C9_Witness ==
    /\ inv.outcome = "committed"
    /\ inv.prevOutcome = "committed"
    /\ db.resources[inv.player].lastTickAt = inv.now
    /\ inv.prev < inv.now


\* The tick in progress commits in this step.
Commits == tick.pc = "commit" /\ inv'.outcome = "committed"

\* The events the tick in progress has written so far.
NewEvents == SubSeq(tx.events, Len(db.events) + 1, Len(tx.events))

TickEmitted(type, ref) ==
    \E k \in DOMAIN NewEvents :
        NewEvents[k] = [playerId |-> tick.player, type |-> type, ref |-> ref]

\* The armies of the player that won a battle against an NPC faction in the
\* tick in progress, as they stood when the tick began.
NpcRaidsWon ==
    {a \in {db.armies[i] : i \in DOMAIN db.armies} :
        /\ a.playerId = tick.player
        /\ a.status = "MARCHING"
        /\ HasFaction(db, a)
        /\ TickEmitted("BATTLE_WON", a.id)}

\* The loot resolveCombat returned to the army.
NpcLootOf(a) ==
    resolveCombat(AttackerArmy(a),
                  generateNPCDefenders(db.tiles[a.toTileId].npcFaction[1].strength,
                                       db.tiles[a.toTileId].isHideout)).loot

\* C12: when a marching army wins a battle against an NPC faction in a tick,
\* the committed ore, provisions and gold of the player are the capped
\* accrual results of the tick plus the loot resolveCombat returned.
C12_NpcLootCredited ==
    [][Commits =>
          \A a \in NpcRaidsWon :
              LET row == db'.resources[tick.player]
                  loot == NpcLootOf(a)
              IN  /\ row.ore = tick.accrued.newOre + Units(loot.ore)
                  /\ row.provisions = tick.accrued.newProvisions + Units(loot.provisions)
                  /\ row.gold = tick.accrued.newGold + Units(loot.gold)]_vars


\* The armies of the player that won a battle for another player's
\* settlement in the tick in progress, as they stood when the tick began.
PvpRaidsWon ==
    {a \in {db.armies[i] : i \in DOMAIN db.armies} :
        /\ a.playerId = tick.player
        /\ a.status = "MARCHING"
        /\ IsEnemySettlement(db, tick.player, a)
        /\ TickEmitted("BATTLE_WON", a.id)}

\* C13: when an attacker wins a PvP battle in a tick, the amount by which
\* each of the defender's ore, provisions, gold and lumber decreases is the
\* amount by which the attacker's committed resource exceeds the accrual
\* result of its tick.
C13_PvpLootTransferred ==
    [][Commits =>
          \A a \in PvpRaidsWon :
              LET ownerId == db.tiles[a.toTileId].ownerId
                  before == db.resources[ownerId]
                  after == db'.resources[ownerId]
                  row == db'.resources[tick.player]
              IN  ownerId \in DOMAIN db.resources =>
                      /\ before.ore - after.ore = row.ore - tick.accrued.newOre
                      /\ before.provisions - after.provisions
                             = row.provisions - tick.accrued.newProvisions
                      /\ before.gold - after.gold = row.gold - tick.accrued.newGold
                      /\ before.lumber - after.lumber = row.lumber - tick.accrued.newLumber]_vars


\* ---------------------------------------------------------------------
\* Properties of the army lifecycle
\* ---------------------------------------------------------------------

ArmyIds == {x.id : x \in ArmyTemplates} \cup {IdleArmy.id, Raiders.id}

\* The status of the army in the store, "deleted" when it has no row.
StatusIn(s, id) ==
    IF \E i \in DOMAIN s.armies : s.armies[i].id = id
    THEN s.armies[CHOOSE i \in DOMAIN s.armies : s.armies[i].id = id].status
    ELSE "deleted"

\* Every change of an army's committed status in this step is in `allowed`.
StatusChangesWithin(allowed) ==
    \A id \in ArmyIds :
        StatusIn(db', id) # StatusIn(db, id) => <<StatusIn(db, id), StatusIn(db', id)>> \in allowed

ByCommand == {<<"IDLE", "MARCHING">>}

ByTickAsClaimed ==
    {<<"MARCHING", "RETURNING">>, <<"RETURNING", "deleted">>, <<"MARCHING", "deleted">>}

\* An IDLE army whose arrivesAt has passed is loaded and handled as an
\* arrival like a MARCHING one.
ByTick ==
    ByTickAsClaimed \cup {<<"MARCHING", "IDLE">>, <<"IDLE", "RETURNING">>, <<"IDLE", "deleted">>}

UnitsIn(s, id) == s.armies[CHOOSE i \in DOMAIN s.armies : s.armies[i].id = id].armyUnits

\* The tick in progress has resolved a battle for the army.
FoughtInTick(id) == TickEmitted("BATTLE_WON", id) \/ TickEmitted("BATTLE_LOST", id)

\* C15: after a tick has resolved a battle for an army, the army is deleted
\* with all its unit rows or is kept with a unit row of quantity > 0, also
\* after a battle that wiped both sides in the same round.
C15_NoEmptyArmyAfterBattle ==
    [][Commits =>
          \A id \in ArmyIds :
              FoughtInTick(id) =>
                  \/ StatusIn(db', id) = "deleted"
                  \/ \E k \in DOMAIN UnitsIn(db', id) : UnitsIn(db', id)[k].quantity > 0]_vars


\* ---------------------------------------------------------------------
\* Properties of the resource accrual
\* ---------------------------------------------------------------------

WithinCaps(row) ==
    /\ row.ore <= row.oreCap
    /\ row.provisions <= row.provisionsCap
    /\ row.gold <= row.goldCap
    /\ row.lumber <= row.lumberCap
    /\ row.mana <= row.manaCap

\* C17: after every committed tick the ore, provisions, gold, lumber and
\* mana of the player are each at most their stored cap, and the provisions
\* are at least 0, also when the upkeep exceeds production plus stock.
C17_CapsAndFloor ==
    [][Commits =>
          /\ WithinCaps(db'.resources[tick.player])
          /\ db'.resources[tick.player].provisions >= 0]_vars

\* A tick has committed that ran the ore into its cap and the provisions,
\* with no production and upkeep above the stock, down to 0.
C17_Witness ==
    /\ inv.outcome = "committed"
    /\ db.resources[inv.player].lastTickAt = inv.now
    /\ db.resources[inv.player].ore = db.resources[inv.player].oreCap
    /\ db.resources[inv.player].provisions = 0

\* The building of the type that the player of the tick in progress has is
\* mid-upgrade at the tick's now.
MidUpgrade(type) ==
    \E i \in DOMAIN db.buildings, j \in DOMAIN db.settlements :
        /\ db.settlements[j].playerId = tick.player
        /\ db.buildings[i].settlementId = db.settlements[j].id
        /\ db.buildings[i].type = type
        /\ db.buildings[i].upgradeFinishAt # NoTime
        /\ db.buildings[i].upgradeFinishAt > tick.now

\* What the upkeep alone leaves of the provisions of the tick's player
ProvisionsAfterUpkeep ==
    LET row == db.resources[tick.player]
        drain == PerTick(GarrisonUpkeep(db, SettlementsOf(db, tick.player))
                             + ArmyUpkeep(ArmiesOf(db, tick.player)),
                         10, tick.now - row.lastTickAt)
    IN  IF row.provisions - drain < 0 THEN 0
        ELSE IF row.provisions - drain > row.provisionsCap THEN row.provisionsCap
        ELSE row.provisions - drain

\* The tick that commits produced no ore under a MINE mid-upgrade and no
\* provisions under a FARM mid-upgrade.
NoOreNoProvisionsMidUpgrade ==
    /\ MidUpgrade("MINE") => db'.resources[tick.player].ore = db.resources[tick.player].ore
    /\ MidUpgrade("FARM") => db'.resources[tick.player].provisions = ProvisionsAfterUpkeep

UpgradeDue(row) ==
    /\ \E j \in DOMAIN db.settlements :
           /\ db.settlements[j].playerId = tick.player
           /\ db.settlements[j].id = row.settlementId
    /\ row.upgradeFinishAt # NoTime
    /\ row.upgradeFinishAt <= tick.now

\* C29: after a committed tick with timestamp now no building and no defense
\* structure of the player has an upgrade-finish timestamp <= now: the tick
\* raised the level of each such building and each such defense structure by
\* exactly 1 (buildings marked built) and cleared its upgrade timestamps.
C29_UpgradesCompleted ==
    [][Commits =>
          /\ \A i \in DOMAIN db.buildings :
                 UpgradeDue(db.buildings[i]) =>
                     db'.buildings[i] = [db.buildings[i] EXCEPT
                                            !.isBuilt = TRUE, !.level = @ + 1,
                                            !.upgradeStartedAt = NoTime,
                                            !.upgradeFinishAt = NoTime]
          /\ \A i \in DOMAIN db.defenses :
                 UpgradeDue(db.defenses[i]) =>
                     db'.defenses[i] = [db.defenses[i] EXCEPT
                                           !.level = @ + 1,
                                           !.upgradeStartedAt = NoTime,
                                           !.upgradeFinishAt = NoTime]
          /\ \A i \in DOMAIN db'.buildings : ~UpgradeDue(db'.buildings[i])
          /\ \A i \in DOMAIN db'.defenses : ~UpgradeDue(db'.defenses[i])]_vars

\* ---------------------------------------------------------------------
\* Properties of the timed completions
\* ---------------------------------------------------------------------

Tracks == {"CROP_MASTERY", "FORESTRY"}

\* The events of a type that the store holds for a player from position
\* `from` on
EventsOf(s, playerId, type, from) ==
    {k \in from..Len(s.events) : s.events[k].playerId = playerId /\ s.events[k].type = type}

\* The units of a type in the garrison of a settlement
GarrisonQty(s, settlementId, unitType) ==
    LET qty(u) == IF u.settlementId = settlementId /\ u.unitType = unitType
                  THEN u.quantity ELSE 0
    IN  SumOver(qty, s.settlementUnits)

\* The active research of the tick's player is finished at the tick's now
ResearchDue(r) == r.playerId = tick.player /\ r.finishAt <= tick.now

\* The queue entry belongs to a settlement of the tick's player and is
\* finished at the tick's now
QueueDue(q) ==
    /\ \E j \in DOMAIN db.settlements :
           /\ db.settlements[j].playerId = tick.player
           /\ db.settlements[j].id = q.settlementId
    /\ q.finishAt <= tick.now

\* The units of a type that the finished queue entries of a settlement hold
TrainedQty(settlementId, unitType) ==
    LET qty(q) == IF QueueDue(q) /\ q.settlementId = settlementId /\ q.unitType = unitType
                  THEN q.quantity ELSE 0
    IN  SumOver(qty, db.unitQueues)

\* The units of a type that the armies of the tick's player bring home to a
\* settlement in this tick
HomecomingQty(settlement, unitType) ==
    LET ofArmy(a) ==
            IF /\ a.playerId = tick.player /\ a.status = "RETURNING"
               /\ a.arrivesAt # NoTime /\ a.arrivesAt <= tick.now
               /\ a.fromTileId = settlement.tileId
            THEN LET qty(u) == IF u.unitType = unitType /\ u.quantity > 0
                               THEN u.quantity ELSE 0
                 IN  SumOver(qty, a.armyUnits)
            ELSE 0
    IN  SumOver(ofArmy, db.armies)

\* The tick that commits has applied the building upgrades, the research and
\* the training entries of its player that are finished at its now, each once,
\* and no other.
AppliesWhatIsDue ==
    /\ \A i \in DOMAIN db.buildings :
           db'.buildings[i] =
               IF UpgradeDue(db.buildings[i])
               THEN [db.buildings[i] EXCEPT !.isBuilt = TRUE, !.level = @ + 1,
                                            !.upgradeStartedAt = NoTime,
                                            !.upgradeFinishAt = NoTime]
               ELSE db.buildings[i]
    /\ \A p \in Players, t \in Tracks :
           ResearchLevel(db', p, t) =
               ResearchLevel(db, p, t)
               + (IF p = tick.player
                     /\ \E i \in DOMAIN db.activeResearch :
                            ResearchDue(db.activeResearch[i]) /\ db.activeResearch[i].track = t
                  THEN 1 ELSE 0)
    /\ db'.activeResearch = SelectSeq(db.activeResearch, LAMBDA r : ~ResearchDue(r))
    /\ Cardinality(EventsOf(db', tick.player, "RESEARCH_COMPLETE", Len(db.events) + 1))
           = Cardinality({i \in DOMAIN db.activeResearch : ResearchDue(db.activeResearch[i])})
    /\ db'.unitQueues = SelectSeq(db.unitQueues, LAMBDA q : ~QueueDue(q))
    /\ Cardinality(EventsOf(db', tick.player, "TRAINING_COMPLETE", Len(db.events) + 1))
           = Cardinality({i \in DOMAIN db.unitQueues : QueueDue(db.unitQueues[i])})
    /\ \A j \in DOMAIN db.settlements, t \in KnownUnitTypes :
           db.settlements[j].playerId = tick.player =>
               GarrisonQty(db', db.settlements[j].id, t) =
                   GarrisonQty(db, db.settlements[j].id, t)
                   + TrainedQty(db.settlements[j].id, t)
                   + HomecomingQty(db.settlements[j], t)

\* C30: timed completions are applied exactly once over any sequence of
\* ticks.  A tick that commits raises by 1 the level of every building whose
\* upgrade is finished and clears its timestamps, raises by 1 the track of a
\* finished research (a track without a row gets level 1), deletes the
\* active research and emits one RESEARCH_COMPLETE event, adds the quantity
\* of every finished training entry to the garrison, deletes the entry and
\* emits one TRAINING_COMPLETE event for it; it applies nothing that is not
\* finished, and no other step changes a building, a research level, the
\* active research or a training queue.
C30_CompletionsOnce ==
    [][IF Commits THEN AppliesWhatIsDue
       ELSE /\ db'.buildings = db.buildings
            /\ db'.researchStates = db.researchStates
            /\ db'.activeResearch = db.activeResearch
            /\ db'.unitQueues = db.unitQueues]_vars

\* A second tick of p1 has committed at 10000, after a first one that
\* committed too: the research of the known track was applied once, the two
\* training entries once each, and the MINE is one level up.
C30_Witness ==
    /\ inv.outcome = "committed" /\ inv.player = "p1" /\ inv.now = 10000
    /\ inv.prevOutcome = "committed"
    /\ tick.pc = "idle"
    /\ ResearchLevel(db, "p1", "CROP_MASTERY") = 2
    /\ Cardinality(EventsOf(db, "p1", "RESEARCH_COMPLETE", 1)) = 1
    /\ Cardinality(EventsOf(db, "p1", "TRAINING_COMPLETE", 1)) = 2
    /\ GarrisonQty(db, "s1", "INFANTRY") = 5
    /\ GarrisonQty(db, "s1", "ARCHER") = 1
    /\ db.unitQueues = <<>>
    /\ \E i \in DOMAIN db.buildings :
           /\ db.buildings[i].type = "MINE" /\ db.buildings[i].settlementId = "s1"
           /\ db.buildings[i].level = 2 /\ db.buildings[i].upgradeFinishAt = NoTime

\* ---------------------------------------------------------------------
\* Properties of the army arrivals
\* ---------------------------------------------------------------------

\* The army the loop of step 8 takes in this step
Arriving == Head(tick.armies)

\* The loop of step 8 processes an arrival in this step.
ArrivalStep ==
    /\ tick.pc = "armies" /\ tick.armies # <<>> /\ ~NotArrived(Arriving, tick.now)
    /\ tick'.pc = "armies" /\ tick'.armies = Tail(tick.armies)

\* The units of a type in the unit rows of an army
ArmyQty(army, unitType) ==
    LET qty(u) == IF u.unitType = unitType THEN u.quantity ELSE 0
    IN  SumOver(qty, army.armyUnits)

\* The units of a player, in the garrisons of its settlements and in its
\* armies
UnitCount(s, playerId) ==
    LET garrison(u) ==
            IF \E j \in DOMAIN s.settlements :
                   /\ s.settlements[j].playerId = playerId
                   /\ s.settlements[j].id = u.settlementId
            THEN u.quantity ELSE 0
        qty(u) == u.quantity
        ofArmy(a) == IF a.playerId = playerId THEN SumOver(qty, a.armyUnits) ELSE 0
    IN  SumOver(garrison, s.settlementUnits) + SumOver(ofArmy, s.armies)

\* The units the training entries finished at the tick's now give its player
TrainedInTick ==
    LET qty(q) == IF QueueDue(q) THEN q.quantity ELSE 0
    IN  SumOver(qty, db.unitQueues)

\* The tick in progress has fought a battle or lost a scout.
FoughtOrLostScout ==
    \E k \in DOMAIN NewEvents :
        NewEvents[k].type \in {"BATTLE_WON", "BATTLE_LOST", "SCOUT_LOST"}

\* The settlement of the tick's player on the origin tile of the army
Origin(army) ==
    Find(tick.settlements, LAMBDA x : x.tileId = army.fromTileId)

\* C31: units are conserved by the tick outside combat.  When the arrival of
\* a RETURNING army is processed, the garrison of its origin grows, for every
\* unit type, by the army's quantity of the type, in one record per type, on
\* top of what training entries and other armies added earlier in the tick,
\* and the army is deleted with its unit records; the units of every player
\* (garrisons plus armies) grow in a tick by the finished training of the
\* tick's player and by nothing else, and shrink only in a tick that fought a
\* battle or lost a scout.
C31_UnitsConserved ==
    [][/\ (ArrivalStep /\ Arriving.status = "RETURNING") =>
              /\ \A t \in KnownUnitTypes :
                     /\ GarrisonQty(tx', Origin(Arriving).id, t)
                            = GarrisonQty(tx, Origin(Arriving).id, t) + ArmyQty(Arriving, t)
                     /\ Cardinality({i \in DOMAIN tx'.settlementUnits :
                                        /\ tx'.settlementUnits[i].settlementId
                                               = Origin(Arriving).id
                                        /\ tx'.settlementUnits[i].unitType = t}) <= 1
              /\ \A i \in DOMAIN tx'.armies : tx'.armies[i].id # Arriving.id
       /\ Commits =>
              \A p \in Players :
                  /\ UnitCount(db', p)
                         <= UnitCount(db, p) + (IF p = tick.player THEN TrainedInTick ELSE 0)
                  /\ ~FoughtOrLostScout =>
                         UnitCount(db', p)
                             = UnitCount(db, p) + (IF p = tick.player THEN TrainedInTick ELSE 0)
      ]_vars

\* The first tick of p1 has committed at 5000: two armies came home in it
\* and a training entry of INFANTRY finished, and the garrison of s1 holds
\* the 3 INFANTRY it had, the 2 trained and the 2 and 1 brought home.
C31_Witness ==
    /\ inv.outcome = "committed" /\ inv.player = "p1" /\ inv.now = 5000
    /\ tick.pc = "idle"
    /\ db.armies = <<>>
    /\ GarrisonQty(db, "s1", "INFANTRY") = 8
    /\ GarrisonQty(db, "s1", "ARCHER") = 1
    /\ GarrisonQty(db, "s1", "CAVALRY") = 1
    /\ Cardinality(EventsOf(db, "p1", "ARMY_RETURNED", 1)) = 2
    /\ Cardinality(EventsOf(db, "p1", "TRAINING_COMPLETE", 1)) = 1

\* The army of the id in the store, for a store that holds it
ArmyIn(s, id) == s.armies[CHOOSE i \in DOMAIN s.armies : s.armies[i].id = id]

\* The store holds an army of the id.
Holds(s, id) == \E i \in DOMAIN s.armies : s.armies[i].id = id

\* The events of a type and an army that the step has written
StepEvents(playerId, type, id) ==
    {k \in (Len(tx.events) + 1)..Len(tx'.events) :
        tx'.events[k] = [playerId |-> playerId, type |-> type, ref |-> id]}

\* The loop of step 8 takes a marching army that is no scout mission and has
\* arrived at a tile holding an NPC faction.
NpcArrivalStep ==
    /\ ArrivalStep
    /\ Arriving.status = "MARCHING"
    /\ ~Arriving.scout
    /\ HasFaction(tx, Arriving)

\* What resolveCombat reports for the army and the faction of its tile
NpcResultOf(s, army) ==
    resolveCombat(AttackerArmy(army),
                  generateNPCDefenders(s.tiles[army.toTileId].npcFaction[1].strength,
                                       s.tiles[army.toTileId].isHideout))

\* C32: when a marching army that is no scout mission arrives at a tile
\* holding an NPC faction and resolveCombat reports an attacker win, every
\* unit type of the army is left with its quantity before the battle minus
\* the reported loss and no unit record is left with a quantity of 0, the
\* tile has no NPC faction and is no hideout, the army is RETURNING to its
\* origin tile and one BATTLE_WON event was written for it; the commit of the
\* tick finds the army as the arrival left it.
C32_NpcBattleWon ==
    [][/\ (NpcArrivalStep /\ NpcResultOf(tx, Arriving).attackerWins) =>
              /\ Holds(tx', Arriving.id)
              /\ \A t \in KnownUnitTypes :
                     ArmyQty(ArmyIn(tx', Arriving.id), t)
                         = ArmyQty(Arriving, t)
                           - ListedFor(NpcResultOf(tx, Arriving).attackerLosses, t)
              /\ \A k \in DOMAIN ArmyIn(tx', Arriving.id).armyUnits :
                     ArmyIn(tx', Arriving.id).armyUnits[k].quantity > 0
              /\ tx'.tiles[Arriving.toTileId].npcFaction = <<>>
              /\ ~tx'.tiles[Arriving.toTileId].isHideout
              /\ ArmyIn(tx', Arriving.id).status = "RETURNING"
              /\ ArmyIn(tx', Arriving.id).toTileId = Arriving.fromTileId
              /\ Cardinality(StepEvents(tick.player, "BATTLE_WON", Arriving.id)) = 1
       /\ Commits =>
              \A a \in NpcRaidsWon :
                  /\ Holds(db', a.id)
                  /\ ArmyIn(db', a.id).status = "RETURNING"
                  /\ \A t \in KnownUnitTypes :
                         ArmyQty(ArmyIn(db', a.id), t)
                             = ArmyQty(a, t) - ListedFor(NpcResultOf(db, a).attackerLosses, t)
                  /\ db'.tiles[a.toTileId].npcFaction = <<>>
                  /\ Cardinality(EventsOf(db', tick.player, "BATTLE_WON", Len(db.events) + 1))
                         = Cardinality(NpcRaidsWon \cup PvpRaidsWon)
      ]_vars

\* The tick of p1 at 5000 has committed over the two raids: the weak one was
\* destroyed, the strong one lost 7 of its 8 CAVALRY and its CARAVAN, whose
\* record is gone, cleared the camp and is on its way home.
C32_Witness ==
    /\ inv.outcome = "committed" /\ inv.player = "p1" /\ inv.now = 5000
    /\ tick.pc = "idle"
    /\ ~Holds(db, "n2")
    /\ Holds(db, "n1")
    /\ ArmyIn(db, "n1").armyUnits = <<Group("CAVALRY", 1)>>
    /\ ArmyIn(db, "n1").status = "RETURNING"
    /\ ArmyIn(db, "n1").toTileId = "t1"
    /\ db.tiles["t3"].npcFaction = <<>>
    /\ Cardinality(EventsOf(db, "p1", "BATTLE_WON", 1)) = 1
    /\ Cardinality(EventsOf(db, "p1", "BATTLE_LOST", 1)) = 1

\* The loop of step 8 takes a marching army that is no scout mission and has
\* arrived at the settlement of another player, no NPC faction holding the
\* tile.
PvpArrivalStep ==
    /\ ArrivalStep
    /\ Arriving.status = "MARCHING"
    /\ ~Arriving.scout
    /\ ~HasFaction(tx, Arriving)
    /\ IsEnemySettlement(tx, tick.player, Arriving)
    /\ TargetSettlement(tx, Arriving) # <<>>

\* The settlement the army has arrived at and its owner
Target == TargetSettlement(tx, Arriving)[1]

\* What resolveCombat reports for the army and the settlement it attacks
PvpResultOf(s, army) ==
    resolveCombat(AttackerArmy(army),
                  DefenderArmy(s, s.tiles[army.toTileId].ownerId, TargetSettlement(s, army),
                               TargetGarrison(s, TargetSettlement(s, army))))

\* The army that arrived is gone from the store, the other armies are as
\* they were.
ArrivingDeleted ==
    tx'.armies = SelectSeq(tx.armies, LAMBDA a : a.id # Arriving.id)

\* C33: when the attacker loses a battle during a tick, the army is deleted
\* with its unit records and nothing of the target changes but the garrison
\* of an attacked settlement.  Against an NPC faction the tiles are left as
\* they were and one BATTLE_LOST event is written; against a settlement the
\* defense structures, the resources of every player and the settlements
\* (their protection window with them) are left as they were, every garrison
\* row of the settlement keeps its quantity minus the reported loss of its
\* type, not less than 0, every other garrison row is untouched, and one
\* BATTLE_LOST event for the attacker and one SETTLEMENT_DEFENDED event for
\* the defender are written.
C33_BattleLost ==
    [][/\ (NpcArrivalStep /\ ~NpcResultOf(tx, Arriving).attackerWins) =>
              /\ ArrivingDeleted
              /\ tx'.tiles = tx.tiles
              /\ tx'.settlementUnits = tx.settlementUnits
              /\ tx'.resources = tx.resources
              /\ Cardinality(StepEvents(tick.player, "BATTLE_LOST", Arriving.id)) = 1
              /\ Len(tx'.events) = Len(tx.events) + 1
       /\ (PvpArrivalStep /\ ~IsProtected(TargetSettlement(tx, Arriving), tick.now)
              /\ ~PvpResultOf(tx, Arriving).attackerWins) =>
              /\ ArrivingDeleted
              /\ tx'.tiles = tx.tiles
              /\ tx'.defenses = tx.defenses
              /\ tx'.resources = tx.resources
              /\ tx'.settlements = tx.settlements
              /\ DOMAIN tx'.settlementUnits = DOMAIN tx.settlementUnits
              /\ \A i \in DOMAIN tx.settlementUnits :
                     tx'.settlementUnits[i] =
                         IF tx.settlementUnits[i].settlementId = Target.id
                         THEN [tx.settlementUnits[i] EXCEPT !.quantity =
                                  Max(0, @ - ListedFor(PvpResultOf(tx, Arriving).defenderLosses,
                                                       tx.settlementUnits[i].unitType))]
                         ELSE tx.settlementUnits[i]
              /\ Cardinality(StepEvents(tick.player, "BATTLE_LOST", Arriving.id)) = 1
              /\ Cardinality(StepEvents(Target.playerId, "SETTLEMENT_DEFENDED", Arriving.id)) = 1
              /\ Len(tx'.events) = Len(tx.events) + 2
      ]_vars

\* The tick of p2 at 10000 has committed: its archer shot one of the 5
\* INFANTRY in the settlement of p1 and was destroyed.
C33_Witness ==
    /\ inv.outcome = "committed" /\ inv.player = "p2" /\ inv.now = 10000
    /\ tick.pc = "idle"
    /\ ~Holds(db, "b1")
    /\ GarrisonQty(db, "s1", "INFANTRY") = 4
    /\ db.settlements[1].protectedUntil = NoTime
    /\ Cardinality(EventsOf(db, "p2", "BATTLE_LOST", 1)) = 1
    /\ Cardinality(EventsOf(db, "p1", "SETTLEMENT_DEFENDED", 1)) = 1

\* C34: when a marching army arrives at the settlement of another player
\* whose protectedUntil is later than the tick's now, no combat is resolved:
\* the garrisons, the defense structures, the resources and the settlements
\* (their protectedUntil with them) are left as they were, the unit records
\* of the army are left as they were, the army is RETURNING to its origin
\* tile, and one ARMY_RETURNED event with the reason PROTECTION_ACTIVE, and
\* no other event, is written.
C34_ProtectedSettlement ==
    [][(/\ PvpArrivalStep
        /\ Target.protectedUntil # NoTime
        /\ Target.protectedUntil > tick.now) =>
           /\ tx'.settlementUnits = tx.settlementUnits
           /\ tx'.defenses = tx.defenses
           /\ tx'.resources = tx.resources
           /\ tx'.settlements = tx.settlements
           /\ tx'.tiles = tx.tiles
           /\ Holds(tx', Arriving.id)
           /\ ArmyIn(tx', Arriving.id).armyUnits = Arriving.armyUnits
           /\ ArmyIn(tx', Arriving.id).status = "RETURNING"
           /\ ArmyIn(tx', Arriving.id).toTileId = Arriving.fromTileId
           /\ tx'.events = Append(tx.events,
                                  [playerId |-> tick.player, type |-> "ARMY_RETURNED",
                                   ref |-> Arriving.id, reason |-> "PROTECTION_ACTIVE"])
      ]_vars

\* The tick of p1 at 5000 has committed in the world of the convoy: the
\* settlement of p2, protected until 9000, was not fought for, and the convoy
\* is on its way home with all its units.
C34_Witness ==
    /\ inv.outcome = "committed" /\ inv.player = "p1" /\ inv.now = 5000
    /\ tick.pc = "idle"
    /\ Holds(db, "v4")
    /\ ArmyIn(db, "v4").status = "RETURNING"
    /\ ArmyIn(db, "v4").armyUnits = <<Group("CAVALRY", 8), Group("CARAVAN", 2)>>
    /\ db.settlements[2].protectedUntil = 9000
    /\ GarrisonQty(db, "s2", "WARDEN") = 1
    /\ \E k \in DOMAIN db.events :
           db.events[k] = [playerId |-> "p1", type |-> "ARMY_RETURNED", ref |-> "v4",
                           reason |-> "PROTECTION_ACTIVE"]
    /\ \A k \in DOMAIN db.events : db.events[k].type \notin {"BATTLE_WON", "BATTLE_LOST"}

\* The step defeats the settlement: it tells its owner of the defeat, or
\* moves its protection window, or razes or loots it.
Defeats(j) ==
    \/ \E k \in (Len(tx.events) + 1)..Len(tx'.events) :
           /\ tx'.events[k].type = "SETTLEMENT_ATTACKED"
           /\ tx'.events[k].playerId = tx.settlements[j].playerId
    \/ tx'.settlements[j].protectedUntil # tx.settlements[j].protectedUntil

\* The defeats the store tells the players of
DefeatsOf(s, playerId) == EventsOf(s, playerId, "SETTLEMENT_ATTACKED", 1)

\* C35: a settlement is defeated in PvP at most once per protection window.
\* An attacker win sets protectedUntil to now + PROTECTION_DURATION_MS; no
\* step of a tick defeats a settlement whose protectedUntil is later than the
\* tick's now, be it for a second army of the attacker in the same tick or
\* for an army of another player in a later tick; and in these worlds, where
\* no window that was opened runs out, no player is told of more than one
\* defeat.
C35_OncePerWindow ==
    /\ [][/\ (/\ PvpArrivalStep
              /\ ~(Target.protectedUntil # NoTime /\ Target.protectedUntil > tick.now)
              /\ PvpResultOf(tx, Arriving).attackerWins) =>
                 \A j \in DOMAIN tx.settlements :
                     tx.settlements[j].id = Target.id =>
                         tx'.settlements[j].protectedUntil
                             = tick.now + PROTECTION_DURATION_MS
          /\ \A j \in DOMAIN tx.settlements :
                 (/\ tick.pc = "armies" /\ tick'.pc = "armies"
                  /\ tx.settlements[j].protectedUntil # NoTime
                  /\ tx.settlements[j].protectedUntil > tick.now) => ~Defeats(j)
         ]_vars
    /\ [](\A p \in Players : Cardinality(DefeatsOf(tx, p)) <= 1)

\* The settlement of p2 was defeated by the first army of p1 at 5000; the
\* second army of p1 in the same tick, the army of p3 in a tick of its own
\* and the third army of p1 in the tick at 10000 were all sent home.
C35_Witness ==
    /\ inv.outcome = "committed" /\ inv.player = "p1" /\ inv.now = 10000
    /\ tick.pc = "idle"
    /\ db.settlements[2].protectedUntil = 5000 + PROTECTION_DURATION_MS
    /\ Cardinality(DefeatsOf(db, "p2")) = 1
    /\ \E k \in DOMAIN db.events :
           db.events[k] = [playerId |-> "p1", type |-> "BATTLE_WON", ref |-> "v1"]
    /\ \A id \in {"v2", "v3"} :
           \E k \in DOMAIN db.events :
               db.events[k] = [playerId |-> "p1", type |-> "ARMY_RETURNED", ref |-> id,
                               reason |-> "PROTECTION_ACTIVE"]
    /\ \E k \in DOMAIN db.events :
           db.events[k] = [playerId |-> "p3", type |-> "ARMY_RETURNED", ref |-> "o1",
                           reason |-> "PROTECTION_ACTIVE"]

\* The loop of step 8 takes an army that wins the settlement it attacks.
PvpWinStep ==
    /\ PvpArrivalStep
    /\ ~IsProtected(TargetSettlement(tx, Arriving), tick.now)
    /\ PvpResultOf(tx, Arriving).attackerWins

\* C36: after an attacker win against a settlement, every defense structure
\* record of the settlement has level 0 and no pending upgrade (both upgrade
\* timestamps cleared), the records at level 0 with a build in progress and
\* the records that played no part in the battle among them.
C36_AllDefensesDestroyed ==
    [][PvpWinStep =>
           \A i \in DOMAIN tx'.defenses :
               tx'.defenses[i].settlementId = Target.id =>
                   /\ tx'.defenses[i].level = 0
                   /\ tx'.defenses[i].upgradeStartedAt = NoTime
                   /\ tx'.defenses[i].upgradeFinishAt = NoTime]_vars

Lootable == {"ore", "provisions", "gold", "lumber"}

\* What the step takes from the owner of the settlement, in 1/3000 of a unit
Taken(r) == tx.resources[Target.playerId][r] - tx'.resources[Target.playerId][r]

\* The units the army could carry when it arrived: 200 for each CARAVAN
CarriedAtMost == 200 * ArmyQty(Arriving, "CARAVAN")

\* C37: for every PvP battle, each component of the loot is at most 15% of
\* the defender's resource at the time of the battle, the four components
\* together are at most the carry capacity of the attacker, all are 0 when
\* the attacker loses or can carry nothing, and the defender is left with no
\* negative resource.  The loot is what the step of the arrival takes from
\* the row of the defender, a whole number of units of each resource.
C37_PvpLootBounds ==
    [][PvpArrivalStep =>
           /\ \A r \in Lootable :
                  /\ Taken(r) >= 0
                  /\ Taken(r) % Units(1) = 0
                  /\ 100 * Taken(r) <= PVP_LOOT_PERCENT * tx.resources[Target.playerId][r]
                  /\ tx'.resources[Target.playerId][r] >= 0
           /\ Taken("ore") + Taken("provisions") + Taken("gold") + Taken("lumber")
                  <= Units(CarriedAtMost)
           /\ (\/ ~PvpResultOf(tx, Arriving).attackerWins
               \/ CarriedAtMost = 0) =>
                  \A r \in Lootable : Taken(r) = 0]_vars

\* The tick of p1 at 5000 is about to commit: its first army, with one
\* CARAVAN, has won the settlement of p2, 15% of whose resources are 301
\* units, and has taken 99 of ore, 59 of provisions, 39 of gold and no
\* lumber, 197 units in all.
C37_Witness ==
    /\ tick.pc = "commit" /\ tick.player = "p1" /\ tick.now = 5000
    /\ TickEmitted("BATTLE_WON", "v1")
    /\ db.resources["p2"].ore = Units(1000)
    /\ tx.resources["p2"].ore = Units(1000 - 99)
    /\ tx.resources["p2"].provisions = Units(600 - 59)
    /\ tx.resources["p2"].gold = Units(400 - 39)
    /\ tx.resources["p2"].lumber = Units(10)

\* The events the committing tick has written for the army
EventsFor(id) ==
    {k \in (Len(db.events) + 1)..Len(db'.events) : db'.events[k].ref = id}

\* C38: each arrival is processed once.  A tick that finds an army IDLE, as
\* a peaceful arrival (with its one ARMY_ARRIVED event) or its detachment
\* left it, writes no event for it and commits it as it was; only a marching
\* order takes an army out of IDLE.
C38_ArrivalProcessedOnce ==
    [][Commits =>
           \A id \in ArmyIds :
               StatusIn(db, id) = "IDLE" =>
                   /\ Holds(db', id)
                   /\ ArmyIn(db', id) = ArmyIn(db, id)
                   /\ EventsFor(id) = {}]_vars

\* The CARAVAN quantity of the army as it arrived, before any battle
CaravansSent == ArmyQty(Arriving, "CARAVAN")

\* What the step adds to the row of the army's player, in 1/3000 of a unit
Gained(r) == tx'.resources[Arriving.playerId][r] - tx.resources[Arriving.playerId][r]

\* The provisions of the NPC faction the army has arrived at
NpcProvisions ==
    generateNPCDefenders(tx.tiles[Arriving.toTileId].npcFaction[1].strength,
                         tx.tiles[Arriving.toTileId].isHideout).provisions

\* The share of min(provisions * 0.2, 200 * caravans), floored
NpcShareSent(pct) == (Min(NpcProvisions, 5 * 200 * CaravansSent) * pct) \div 500

\* The PvP loot of a resource from the defender's row and 200 * caravans
PvpShareSent(r) ==
    LET have == tx.resources[Target.playerId]
        total == have.ore + have.provisions + have.gold + have.lumber
        capacity == 200 * CaravansSent
    IN  IF capacity = 0 \/ total = 0 THEN 0
        ELSE IF total * PVP_LOOT_PERCENT <= capacity * 100 * Units(1)
             THEN (have[r] * PVP_LOOT_PERCENT) \div (100 * Units(1))
             ELSE (have[r] * capacity) \div total

\* C39: loot eligibility and carry capacity come from the unit quantities of
\* the attacker before the battle.  What a won NPC battle adds to the
\* attacker's row is 40%, 40% and 20% of min(provisions * 0.2, 200 * caravans)
\* with the caravans the army arrived with and the provisions of the faction;
\* what a won PvP battle moves from the defender's row to the attacker's is
\* the loot for 200 * those caravans and the defender's resources; caravans
\* killed in the battle change neither.
C39_LootFromUnitsSent ==
    [][/\ (NpcArrivalStep /\ NpcResultOf(tx, Arriving).attackerWins) =>
              /\ Gained("ore") = Units(NpcShareSent(40))
              /\ Gained("provisions") = Units(NpcShareSent(40))
              /\ Gained("gold") = Units(NpcShareSent(20))
              /\ Gained("lumber") = 0
       /\ PvpWinStep =>
              \A r \in Lootable :
                  /\ Taken(r) = Units(PvpShareSent(r))
                  /\ Gained(r) = Taken(r)]_vars

\* The tick of p1 has handled its army n1, which came to the faction of t3
\* with one CARAVAN, won and lost the CARAVAN in the battle: the army is
\* RETURNING without a CARAVAN and the row of p1 holds the loot of 16 ore,
\* 16 provisions and 8 gold for the CARAVAN that was sent.
C39_Witness ==
    /\ tick.pc = "armies" /\ tick.player = "p1"
    /\ Holds(db, "n1") /\ Holds(tx, "n1")
    /\ ArmyQty(ArmyIn(db, "n1"), "CARAVAN") = 1
    /\ ArmyIn(tx, "n1").status = "RETURNING"
    /\ ArmyQty(ArmyIn(tx, "n1"), "CARAVAN") = 0
    /\ tx.resources["p1"].ore = db.resources["p1"].ore + Units(16)
    /\ tx.resources["p1"].provisions = db.resources["p1"].provisions + Units(16)
    /\ tx.resources["p1"].gold = db.resources["p1"].gold + Units(8)

RECURSIVE ArriveAll(_, _, _, _)
\* The loop of step 8 over the armies loaded with the tick, no scout lost
ArriveAll(s, playerId, armies, now) ==
    IF armies = <<>> THEN s
    ELSE ArriveAll(ArmyArrival(s, playerId, Head(armies), now, FALSE),
                   playerId, Tail(armies), now)

\* What a call of processPlayerTick at `now` that commits makes of the store
TickAt(s, playerId, now) ==
    IF Debounced(now - s.resources[playerId].lastTickAt) THEN s
    ELSE WriteResources(
             ArriveAll(CompleteTraining(
                           CompleteResearch(CompleteBuildings(s, playerId, now),
                                            playerId, now),
                           playerId, now, SettlementsOf(s, playerId)),
                       playerId, ArmiesOf(s, playerId), now),
             playerId, Accrue(s, playerId, now), now)

\* The moments of the ticks that split an interval
SplitTimes == Times \cup {15000}

\* Up to `now` no training queue of the player is due and no army of the
\* player arrives: the ticks add and remove no units.
NoUnitsMove(s, playerId, now) ==
    /\ \A i \in DOMAIN s.unitQueues :
           \A j \in DOMAIN s.settlements :
               (/\ s.settlements[j].playerId = playerId
                /\ s.unitQueues[i].settlementId = s.settlements[j].id) =>
                   s.unitQueues[i].finishAt > now
    /\ \A i \in DOMAIN s.armies :
           s.armies[i].playerId = playerId => NotArrived(s.armies[i], now)

\* The tick at `now` reaches no cap and not the floor of the provisions.
NothingClamped(s, playerId, now) ==
    /\ Accrue(s, playerId, now).newOre < s.resources[playerId].oreCap
    /\ Accrue(s, playerId, now).newProvisions < s.resources[playerId].provisionsCap
    /\ Accrue(s, playerId, now).newProvisions > 0
    /\ Accrue(s, playerId, now).newGold < s.resources[playerId].goldCap
    /\ Accrue(s, playerId, now).newLumber < s.resources[playerId].lumberCap
    /\ s.resources[playerId].manaCap > 0 =>
           Accrue(s, playerId, now).newMana < s.resources[playerId].manaCap

\* The five resource totals of the player
TotalsOf(s, playerId) ==
    [r \in {"ore", "provisions", "gold", "lumber", "mana"} |-> s.resources[playerId][r]]

\* C40: accrual depends on elapsed time, not on the number of ticks.  For
\* every player with a resource row, buildings under upgrade included, and
\* every split of an interval into two ticks at least DEBOUNCE_MS apart, the
\* resource totals after the second tick are those after one tick spanning
\* the interval, provided no tick reaches a cap or the floor of the
\* provisions and no units are added or removed.
C40_AccrualByElapsedTime ==
    \A p \in DOMAIN db.resources :
        \A t1 \in SplitTimes : \A t2 \in SplitTimes :
            (/\ t1 - db.resources[p].lastTickAt >= DEBOUNCE_MS
             /\ t2 - t1 >= DEBOUNCE_MS
             /\ NoUnitsMove(db, p, t2)
             /\ NothingClamped(db, p, t1)
             /\ NothingClamped(db, p, t2)
             /\ NothingClamped(TickAt(db, p, t1), p, t2)) =>
                TotalsOf(TickAt(TickAt(db, p, t1), p, t2), p) = TotalsOf(TickAt(db, p, t2), p)

====
